---- MODULE Spec2Model ----
(***************************************************************************)
(* Model of the sandboxed filesystem gateway of Qwen_Wrapper:              *)
(* FilesystemHandler (src/src/filesystem_handler.py) and the dispatchers   *)
(* that reach it by name (execute_function, handle_function_call).         *)
(*                                                                         *)
(* A path string is a sequence of one-character strings, so that the       *)
(* string operations of the code (startswith, split, join) are computed    *)
(* character by character.  The filesystem is a function from canonical    *)
(* absolute path strings to entries (absent, file, directory, symlink).    *)
(***************************************************************************)
EXTENDS Integers, Sequences, FiniteSets, TLC

(***************************************************************************)
(* String primitives                                                       *)
(***************************************************************************)

\* str.startswith
StartsWith(s, p) ==
  /\ Len(p) <= Len(s)
  /\ SubSeq(s, 1, Len(p)) = p

\* index of the last "/" of s, 0 when there is none (str.rfind + 1)
RECURSIVE LastSlash(_, _)
LastSlash(s, i) ==
  IF i = 0 THEN 0
  ELSE IF s[i] = "/" THEN i
  ELSE LastSlash(s, i - 1)

\* str.rstrip('/')
RECURSIVE RStripSlash(_)
RStripSlash(s) ==
  IF s # <<>> /\ s[Len(s)] = "/" THEN RStripSlash(SubSeq(s, 1, Len(s) - 1))
  ELSE s

\* a string of n "/" characters
Slashes(n) == [i \in 1..n |-> "/"]

\* str.split('/'): the components between the separators, empty ones kept
RECURSIVE SplitFrom(_, _, _)
SplitFrom(s, i, cur) ==
  IF i > Len(s) THEN <<cur>>
  ELSE IF s[i] = "/" THEN <<cur>> \o SplitFrom(s, i + 1, <<>>)
  ELSE SplitFrom(s, i + 1, Append(cur, s[i]))

Split(s) == SplitFrom(s, 1, <<>>)

\* '/'.join(comps)
RECURSIVE JoinComps(_)
JoinComps(comps) ==
  IF comps = <<>> THEN <<>>
  ELSE IF Len(comps) = 1 THEN comps[1]
  ELSE comps[1] \o <<"/">> \o JoinComps(Tail(comps))

\* the component loop of posixpath.normpath
RECURSIVE NormComps(_, _, _)
NormComps(comps, new_comps, initial_slashes) ==
  IF comps = <<>> THEN new_comps
  ELSE LET comp == Head(comps) IN
    IF comp = <<>> \/ comp = <<".">>
      THEN NormComps(Tail(comps), new_comps, initial_slashes)
    ELSE IF \/ comp # <<".", ".">>
            \/ (initial_slashes = 0 /\ new_comps = <<>>)
            \/ (new_comps # <<>> /\ new_comps[Len(new_comps)] = <<".", ".">>)
      THEN NormComps(Tail(comps), Append(new_comps, comp), initial_slashes)
    ELSE IF new_comps # <<>>
      THEN NormComps(Tail(comps), SubSeq(new_comps, 1, Len(new_comps) - 1),
                     initial_slashes)
    ELSE NormComps(Tail(comps), new_comps, initial_slashes)


\* posixpath.normpath: "." and ".." segments and repeated separators removed
normpath(path) ==
  LET orDot(r) == IF r = <<>> THEN <<".">> ELSE r
      normalised(initial_slashes) ==
        orDot(Slashes(initial_slashes)
                \o JoinComps(NormComps(Split(path), <<>>, initial_slashes)))
  IN IF path = <<>> THEN <<".">>
     ELSE normalised(IF ~StartsWith(path, <<"/">>) THEN 0
                     ELSE IF StartsWith(path, <<"/", "/">>)
                             /\ ~StartsWith(path, <<"/", "/", "/">>) THEN 2
                     ELSE 1)

\* the working directory of the process (os.getcwd())
Cwd == <<"/", "a">>

\* posixpath.join(a, b)
join(a, b) ==
  IF StartsWith(b, <<"/">>) THEN b
  ELSE IF a = <<>> \/ a[Len(a)] = "/" THEN a \o b
  ELSE a \o <<"/">> \o b

\* os.path.abspath: made absolute against the working directory, normalised
abspath(path) ==
  normpath(IF StartsWith(path, <<"/">>) THEN path ELSE join(Cwd, path))

\* os.path.dirname
dirname(p) ==
  LET stripped(head) ==
        IF head # <<>> /\ head # Slashes(Len(head)) THEN RStripSlash(head) ELSE head
  IN stripped(SubSeq(p, 1, LastSlash(p, Len(p))))

\* os.path.basename
basename(p) == SubSeq(p, LastSlash(p, Len(p)) + 1, Len(p))

(***************************************************************************)
(* The disk: path names and entries                                        *)
(***************************************************************************)

RootDir == <<"/">>
PA == <<"/", "a">>
PRoot == <<"/", "a", "/", "b", "b">>
PRootF == <<"/", "a", "/", "b", "b", "/", "f">>
PRootD == <<"/", "a", "/", "b", "b", "/", "d">>
PRootDF == <<"/", "a", "/", "b", "b", "/", "d", "/", "f">>
PRootL == <<"/", "a", "/", "b", "b", "/", "l">>
PRootLF == <<"/", "a", "/", "b", "b", "/", "l", "/", "f">>
PRootH == <<"/", "a", "/", "b", "b", "/", ".", "h">>
PRootFX == <<"/", "a", "/", "b", "b", "/", "f", "/", "x">>
PSib == <<"/", "a", "/", "b", "b", "b">>
PSibF == <<"/", "a", "/", "b", "b", "b", "/", "f">>
PX == <<"/", "a", "/", "x">>
PO == <<"/", "o">>
POF == <<"/", "o", "/", "f">>
PW == <<"/", "w">>
PWF == <<"/", "w", "/", "f">>

\* the canonical absolute paths of the modelled disk
Nodes ==
  {RootDir, PA, PRoot, PRootF, PRootD, PRootDF, PRootL, PRootH, PSib, PSibF, PX,
   PO, POF, PW, PWF}

Absent == [kind |-> "none"]
Dir == [kind |-> "dir"]
File(c) == [kind |-> "file", content |-> c]
Link(t) == [kind |-> "link", target |-> t]

\* lstat: the kind of the entry named q itself
Kind(fsx, q) == IF q \in Nodes THEN fsx[q].kind ELSE "none"

\* the kernel's path walk: symlinks in the directory part are always
\* followed, a symlink in the last component only when follow is TRUE; the
\* component ".." of a directory is the directory's parent, "." the
\* directory itself
RECURSIVE Resolve(_, _, _)
Resolve(fsx, p, follow) ==
  LET entry(q) == IF follow /\ Kind(fsx, q) = "link" THEN fsx[q].target ELSE q
      step(parent, name) ==
        IF name \in {<<".">>, <<".", ".">>} /\ Kind(fsx, parent) = "dir"
          THEN IF name = <<".">> THEN parent ELSE dirname(parent)
        ELSE entry(join(parent, name))
  IN IF p = RootDir THEN p
     ELSE step(Resolve(fsx, dirname(p), TRUE), basename(p))

\* os.path.realpath
realpath(fsx, p) == Resolve(fsx, p, TRUE)

\* os.path.exists / isfile / isdir / islink
exists(fsx, p) == Kind(fsx, Resolve(fsx, p, TRUE)) \in {"file", "dir"}
isfile(fsx, p) == Kind(fsx, Resolve(fsx, p, TRUE)) = "file"
isdir(fsx, p) == Kind(fsx, Resolve(fsx, p, TRUE)) = "dir"
islink(fsx, p) == Kind(fsx, Resolve(fsx, p, FALSE)) = "link"

\* q is n or lies below n (path-segment boundary)
Within(q, n) ==
  \/ q = n
  \/ StartsWith(q, IF n = RootDir THEN n ELSE n \o <<"/">>)

\* the entries of directory q
Children(fsx, q) == {n \in Nodes : n # RootDir /\ dirname(n) = q /\ fsx[n].kind # "none"}

\* os.listdir
listdir(fsx, p) == {basename(n) : n \in Children(fsx, Resolve(fsx, p, TRUE))}

\* str(e) of an OSError raised for path p
OSErrorStr(msg, p) == <<msg, p, "'">>

\* the marker of a step that would leave the modelled set of paths
OutsideModel == <<"OutsideModel">>

Ok(fsx) == [ok |-> TRUE, fs |-> fsx]
Fail(fsx, kindOfError, text) == [ok |-> FALSE, fs |-> fsx, exc |-> kindOfError, err |-> text]

\* os.mkdir(name)
mkdir(fsx, name) ==
  LET at(q) ==
        IF Kind(fsx, q) # "none"
          THEN Fail(fsx, "FileExistsError", OSErrorStr("[Errno 17] File exists: '", name))
        ELSE IF Kind(fsx, dirname(q)) = "none"
          THEN Fail(fsx, "FileNotFoundError",
                    OSErrorStr("[Errno 2] No such file or directory: '", name))
        ELSE IF Kind(fsx, dirname(q)) # "dir"
          THEN Fail(fsx, "NotADirectoryError",
                    OSErrorStr("[Errno 20] Not a directory: '", name))
        ELSE IF q \notin Nodes
          THEN Fail(fsx, "OutsideModel", OutsideModel)
        ELSE Ok([fsx EXCEPT ![q] = Dir])
  IN at(Resolve(fsx, name, FALSE))

\* os.makedirs(name, exist_ok=True)
RECURSIVE makedirs(_, _)
makedirs(fsx, name) ==
  LET leaf(up, made) ==
        IF made.ok THEN made
        ELSE IF made.exc \in {"FileExistsError", "NotADirectoryError", "FileNotFoundError"}
                /\ isdir(up.fs, name)
          THEN Ok(up.fs)
        ELSE made
      parents(up) ==
        IF ~up.ok /\ up.exc # "FileExistsError" THEN up
        ELSE leaf(up, mkdir(up.fs, name))
  IN parents(IF dirname(name) # <<>> /\ basename(name) # <<>> /\ ~exists(fsx, dirname(name))
               THEN makedirs(fsx, dirname(name))
               ELSE Ok(fsx))

\* open(p, mode) followed by write(content) and close; mode is "w" or "a"
openWrite(fsx, p, mode, content) ==
  LET at(q) ==
        IF Kind(fsx, q) = "dir"
          THEN Fail(fsx, "IsADirectoryError", OSErrorStr("[Errno 21] Is a directory: '", p))
        ELSE IF Kind(fsx, dirname(q)) = "none"
          THEN Fail(fsx, "FileNotFoundError",
                    OSErrorStr("[Errno 2] No such file or directory: '", p))
        ELSE IF Kind(fsx, dirname(q)) # "dir"
          THEN Fail(fsx, "NotADirectoryError", OSErrorStr("[Errno 20] Not a directory: '", p))
        ELSE IF q \notin Nodes
          THEN Fail(fsx, "OutsideModel", OutsideModel)
        ELSE IF mode = "a" /\ Kind(fsx, q) = "file"
          THEN Ok([fsx EXCEPT ![q] = File(fsx[q].content \o content)])
        ELSE Ok([fsx EXCEPT ![q] = File(content)])
  IN at(Resolve(fsx, p, TRUE))

\* the stored content of the file p names
readContent(fsx, p) == fsx[Resolve(fsx, p, TRUE)].content

\* os.remove
remove(fsx, p) == Ok([fsx EXCEPT ![Resolve(fsx, p, FALSE)] = Absent])

\* shutil.rmtree: refuses a symlink, else removes the entry and all below it
rmtree(fsx, p) ==
  LET at(q) ==
        IF Kind(fsx, q) = "link"
          THEN Fail(fsx, "OSError", <<"Cannot call rmtree on a symbolic link">>)
        ELSE Ok([n \in Nodes |-> IF Within(n, q) THEN Absent ELSE fsx[n]])
  IN at(Resolve(fsx, p, FALSE))

\* os.rename(src, dst): the entry src names (a symlink itself, not its
\* target) and everything below it is re-attached at dst
rename(fsx, src, dst) ==
  LET between(s, d) ==
        IF Kind(fsx, s) = "none" \/ Kind(fsx, dirname(d)) = "none"
          THEN Fail(fsx, "FileNotFoundError",
                    <<"[Errno 2] No such file or directory: '", src, "' -> '", dst, "'">>)
        ELSE IF Kind(fsx, dirname(d)) # "dir"
          THEN Fail(fsx, "NotADirectoryError",
                    <<"[Errno 20] Not a directory: '", src, "' -> '", dst, "'">>)
        ELSE IF s = d THEN Ok(fsx)
        ELSE IF Kind(fsx, s) = "dir" /\ Within(d, s)
          THEN Fail(fsx, "OSError",
                    <<"[Errno 22] Invalid argument: '", src, "' -> '", dst, "'">>)
        ELSE IF Kind(fsx, s) = "dir" /\ Kind(fsx, d) \in {"file", "link"}
          THEN Fail(fsx, "NotADirectoryError",
                    <<"[Errno 20] Not a directory: '", src, "' -> '", dst, "'">>)
        ELSE IF Kind(fsx, s) # "dir" /\ Kind(fsx, d) = "dir"
          THEN Fail(fsx, "IsADirectoryError",
                    <<"[Errno 21] Is a directory: '", src, "' -> '", dst, "'">>)
        ELSE IF Kind(fsx, d) = "dir" /\ Children(fsx, d) # {}
          THEN Fail(fsx, "OSError",
                    <<"[Errno 39] Directory not empty: '", src, "' -> '", dst, "'">>)
        ELSE IF \E n \in Nodes :
                  /\ Within(n, s)
                  /\ fsx[n].kind # "none"
                  /\ d \o SubSeq(n, Len(s) + 1, Len(n)) \notin Nodes
          THEN Fail(fsx, "OutsideModel", OutsideModel)
        ELSE Ok([n \in Nodes |->
                   IF Within(n, d)
                     THEN (IF s \o SubSeq(n, Len(d) + 1, Len(n)) \in Nodes
                             THEN fsx[s \o SubSeq(n, Len(d) + 1, Len(n))]
                             ELSE Absent)
                   ELSE IF Within(n, s) THEN Absent
                   ELSE fsx[n]])
  IN between(Resolve(fsx, src, FALSE), Resolve(fsx, dst, FALSE))

\* shutil._destinsrc: the lexical test "dst lies inside src"
destinsrc(src, dst) ==
  LET slashed(p) == IF p[Len(p)] = "/" THEN p ELSE p \o <<"/">>
  IN StartsWith(slashed(abspath(dst)), slashed(abspath(src)))

\* shutil.move(src, dst)
move(fsx, src, dst) ==
  LET attempt(real_dst, renamed) ==
        IF isdir(fsx, dst) /\ real_dst # dst /\ exists(fsx, real_dst)
          THEN Fail(fsx, "Error", <<"Destination path '", real_dst, "' already exists">>)
        ELSE IF renamed.ok \/ renamed.exc = "OutsideModel" THEN renamed
        ELSE IF ~islink(fsx, src) /\ isdir(fsx, src) /\ destinsrc(src, dst)
          THEN Fail(fsx, "Error",
                    <<"Cannot move a directory '", src, "' into itself '", dst, "'.">>)
        ELSE renamed
      to(real_dst) == attempt(real_dst, rename(fsx, src, real_dst))
  IN to(IF /\ isdir(fsx, dst)
           /\ ~(Resolve(fsx, src, TRUE) = Resolve(fsx, dst, TRUE) /\ ~islink(fsx, src))
          THEN join(dst, basename(RStripSlash(src)))
          ELSE dst)

\* shutil.copy2(src, dst): the bytes of src written to dst (into dst when it
\* is a directory)
copy2(fsx, src, dst) ==
  LET to(real_dst) ==
        IF ~exists(fsx, src)
          THEN Fail(fsx, "FileNotFoundError",
                    OSErrorStr("[Errno 2] No such file or directory: '", src))
        ELSE IF isdir(fsx, src)
          THEN Fail(fsx, "IsADirectoryError", OSErrorStr("[Errno 21] Is a directory: '", src))
        ELSE IF exists(fsx, real_dst)
                /\ Resolve(fsx, src, TRUE) = Resolve(fsx, real_dst, TRUE)
          THEN Fail(fsx, "SameFileError", <<src, " and ", real_dst, " are the same file">>)
        ELSE openWrite(fsx, real_dst, "w", readContent(fsx, src))
  IN to(IF isdir(fsx, dst) THEN join(dst, basename(src)) ELSE dst)

(***************************************************************************)
(* glob                                                                    *)
(***************************************************************************)

\* fnmatch.fnmatch for patterns of literal characters, "?" and "*"
RECURSIVE fnmatch(_, _)
fnmatch(name, pat) ==
  IF pat = <<>> THEN name = <<>>
  ELSE IF Head(pat) = "*"
    THEN \E k \in 0..Len(name) : fnmatch(SubSeq(name, k + 1, Len(name)), Tail(pat))
  ELSE IF name = <<>> THEN FALSE
  ELSE (Head(pat) = "?" \/ Head(pat) = Head(name)) /\ fnmatch(Tail(name), Tail(pat))

\* glob.has_magic
has_magic(pat) == \E i \in 1..Len(pat) : pat[i] \in {"*", "?", "["}

\* glob._ishidden
ishidden(name) == name # <<>> /\ name[1] = "."

\* the entry names of the model, in the order a directory scan yields them
NameSeq ==
  <<<<".", "h">>, <<"a">>, <<"b", "b">>, <<"b", "b", "b">>, <<"d">>, <<"f">>,
    <<"l">>, <<"o">>, <<"w">>, <<"x">>>>

\* the elements of seq that satisfy Test, in order
Filter(seq, Test(_)) ==
  LET kept[i \in 0..Len(seq)] ==
        IF i = 0 THEN <<>>
        ELSE kept[i - 1] \o (IF Test(seq[i]) THEN <<seq[i]>> ELSE <<>>)
  IN kept[Len(seq)]

\* os.listdir as the scan yields it
listdirSeq(fsx, p) ==
  LET scan(q) ==
        LET present(name) == Kind(fsx, join(q, name)) # "none"
        IN IF Kind(fsx, q) = "dir" THEN Filter(NameSeq, present) ELSE <<>>
  IN scan(Resolve(fsx, p, TRUE))

\* how deep a recursive scan descends before the walk gives up
MaxDepth == 4

\* glob._rlistdir with dironly: every directory below dir (symlinks to
\* directories are entered), hidden names skipped
RECURSIVE rlistdir(_, _, _)
rlistdir(fsx, dir, depth) ==
  LET sub(name) == ~ishidden(name) /\ isdir(fsx, join(dir, name))
      walk(names) ==
        LET below[i \in 0..Len(names)] ==
              IF i = 0 THEN <<>>
              ELSE below[i - 1] \o <<join(dir, names[i])>>
                     \o rlistdir(fsx, join(dir, names[i]), depth - 1)
        IN below[Len(names)]
  IN IF depth = 0 THEN <<>> ELSE walk(Filter(listdirSeq(fsx, dir), sub))

\* glob.glob0 / glob.glob1: the names in dir that match the last component
glob_in_dir(fsx, dir, pattern) ==
  LET hit(name) == (ishidden(pattern) \/ ~ishidden(name)) /\ fnmatch(name, pattern)
  IN IF has_magic(pattern) THEN Filter(listdirSeq(fsx, dir), hit)
     ELSE IF Kind(fsx, Resolve(fsx, join(dir, pattern), FALSE)) # "none"
       THEN <<pattern>>
     ELSE <<>>

\* the names found in dir, each joined to dir
joined_matches(dir, names) == [k \in 1..Len(names) |-> join(dir, names[k])]

\* glob.glob(join(dir, "**", pattern), recursive=True) when recursive, else
\* glob.glob(join(dir, pattern))
glob(fsx, dir, pattern, recursive) ==
  LET over(dirs) ==
        LET found[i \in 0..Len(dirs)] ==
              IF i = 0 THEN <<>>
              ELSE found[i - 1]
                     \o joined_matches(dirs[i], glob_in_dir(fsx, dirs[i], pattern))
        IN found[Len(dirs)]
  IN over(IF recursive THEN <<dir>> \o rlistdir(fsx, dir, MaxDepth) ELSE <<dir>>)

(***************************************************************************)
(* FilesystemHandler                                                       *)
(***************************************************************************)

VARIABLES
  fs,                   \* the disk: [Nodes -> entry]
  allowed_directories,  \* FilesystemHandler.allowed_directories
  call,                 \* the call that has just returned: its name and arguments
  result,               \* what that call returned
  ops                   \* the number of calls made so far

vars == <<fs, allowed_directories, call, result, ops>>

\* the number of bytes of the UTF-8 encoding of a one-character string
Utf8Len(ch) == IF ch = "U+00E9" THEN 2 ELSE 1

RECURSIVE ByteLen(_)
ByteLen(content) ==
  IF content = <<>> THEN 0 ELSE Utf8Len(Head(content)) + ByteLen(Tail(content))

\* os.linesep
linesep == <<"LF">>

\* what a text-mode file object (newline=None) stores for write(content):
\* every "\n" becomes os.linesep
RECURSIVE encode_text(_)
encode_text(content) ==
  IF content = <<>> THEN <<>>
  ELSE (IF Head(content) = "LF" THEN linesep ELSE <<Head(content)>>)
         \o encode_text(Tail(content))

\* what a text-mode file object (newline=None) returns for read(): universal
\* newlines, "\r\n" and "\r" both become "\n"
RECURSIVE decode_text(_)
decode_text(stored) ==
  IF stored = <<>> THEN <<>>
  ELSE IF Head(stored) = "CR"
    THEN <<"LF">> \o decode_text(IF Len(stored) > 1 /\ stored[2] = "LF"
                                   THEN SubSeq(stored, 3, Len(stored))
                                   ELSE Tail(stored))
  ELSE <<Head(stored)>> \o decode_text(Tail(stored))

\* FilesystemHandler._is_path_allowed
is_path_allowed(roots, path) ==
  LET abs_path == abspath(path)
  IN \E i \in 1..Len(roots) : StartsWith(abs_path, roots[i])

\* the message of the PermissionError _validate_path raises
AccessDenied(path) == <<"Access denied: Path '", path, "' is outside allowed directories">>

\* _validate_path with the message built from the normalised path
validate_path_canonical(roots, path) ==
  IF ~is_path_allowed(roots, path)
    THEN [ok |-> FALSE, err |-> AccessDenied(abspath(path))]
    ELSE [ok |-> TRUE, path |-> abspath(path)]

\* FilesystemHandler._validate_path: the validated path, or the error raised
validate_path(roots, path) ==
  IF ~is_path_allowed(roots, path)
    THEN [ok |-> FALSE, err |-> AccessDenied(path)]
    ELSE [ok |-> TRUE, path |-> abspath(path)]

\* the return value of the "except Exception as e" handler of an operation
Caught(fsx, err) == [fs |-> fsx, result |-> [success |-> FALSE, error |-> err]]

\* an early return that adds the path to the failure as a field of its own
RefusedWithPath(fsx, msg, path) ==
  [fs |-> fsx, result |-> [success |-> FALSE, error |-> <<msg, path>>, path |-> path]]

\* an early "return {success: False, error: ...}"
Refused(fsx, msg, path) ==
  [fs |-> fsx, result |-> [success |-> FALSE, error |-> <<msg, path>>]]

\* bytes.decode('utf-8') succeeds: no byte of the content is an invalid one
decodable(stored) == \A i \in 1..Len(stored) : stored[i] # "0xFF"

\* str(e) of the UnicodeDecodeError file.read() raises
UnicodeDecodeErrorStr == <<"'utf-8' codec can't decode byte 0xff: invalid start byte">>

\* an exception that leaves an operation instead of being returned
Escaped(fsx, exc, err) == [fs |-> fsx, result |-> [escaped |-> exc, error |-> err]]

\* read_file with its body outside the try block
read_file_uncaught(fsx, roots, file_path) ==
  LET read(content) ==
        [fs |-> fsx,
         result |-> [success |-> TRUE, content |-> content,
                     file_path |-> file_path, size |-> Len(content)]]
      validated(v) ==
        IF ~v.ok THEN Escaped(fsx, "PermissionError", v.err)
        ELSE IF ~exists(fsx, v.path) THEN Refused(fsx, "File not found: ", file_path)
        ELSE IF ~isfile(fsx, v.path) THEN Refused(fsx, "Path is not a file: ", file_path)
        ELSE IF ~decodable(readContent(fsx, v.path))
          THEN Escaped(fsx, "UnicodeDecodeError", UnicodeDecodeErrorStr)
        ELSE read(decode_text(readContent(fsx, v.path)))
  IN validated(validate_path(roots, file_path))

\* FilesystemHandler.read_file
read_file(fsx, roots, file_path) ==
  LET read(content) ==
        [fs |-> fsx,
         result |-> [success |-> TRUE, content |-> content,
                     file_path |-> file_path, size |-> Len(content)]]
      validated(v) ==
        IF ~v.ok THEN Caught(fsx, v.err)
        ELSE IF ~exists(fsx, v.path) THEN Refused(fsx, "File not found: ", file_path)
        ELSE IF ~isfile(fsx, v.path) THEN Refused(fsx, "Path is not a file: ", file_path)
        ELSE IF ~decodable(readContent(fsx, v.path))
          THEN Caught(fsx, UnicodeDecodeErrorStr)
        ELSE read(decode_text(readContent(fsx, v.path)))
  IN validated(validate_path(roots, file_path))

\* FilesystemHandler.write_file
write_file(fsx, roots, file_path, content) ==
  LET written(w) ==
        IF ~w.ok THEN Caught(w.fs, w.err)
        ELSE [fs |-> w.fs,
              result |-> [success |-> TRUE,
                          message |-> <<"File written successfully: ", file_path>>,
                          file_path |-> file_path, size |-> Len(content)]]
      made(v, m) ==
        IF ~m.ok THEN Caught(m.fs, m.err)
        ELSE written(openWrite(m.fs, v.path, "w", encode_text(content)))
      validated(v) ==
        IF ~v.ok THEN Caught(fsx, v.err)
        ELSE made(v, makedirs(fsx, dirname(v.path)))
  IN validated(validate_path(roots, file_path))

\* FilesystemHandler.append_to_file
append_to_file(fsx, roots, file_path, content) ==
  LET written(w) ==
        IF ~w.ok THEN Caught(w.fs, w.err)
        ELSE [fs |-> w.fs,
              result |-> [success |-> TRUE,
                          message |-> <<"Content appended successfully: ", file_path>>,
                          file_path |-> file_path]]
      made(v, m) ==
        IF ~m.ok THEN Caught(m.fs, m.err)
        ELSE written(openWrite(m.fs, v.path, "a", encode_text(content)))
      validated(v) ==
        IF ~v.ok THEN Caught(fsx, v.err)
        ELSE made(v, makedirs(fsx, dirname(v.path)))
  IN validated(validate_path(roots, file_path))

\* the item list_directory reports for the entry item_path
item_info(fsx, item, item_path) ==
  [name |-> item,
   type |-> IF isdir(fsx, item_path) THEN "directory" ELSE "file",
   path |-> item_path]

\* list_directory that makes the directory it is asked for before listing it
list_directory_makedirs(fsx, roots, directory_path, include_hidden) ==
  LET shown(item) == include_hidden \/ ~ishidden(item)
      listed(d, items) ==
        [fs |-> d,
         result |-> [success |-> TRUE, directory_path |-> directory_path,
                     items |-> items, count |-> Len(items)]]
      scanned(d, v, names) ==
        listed(d, [k \in 1..Len(names) |-> item_info(d, names[k], join(v.path, names[k]))])
      made(v, m) ==
        IF ~m.ok THEN Caught(m.fs, m.err)
        ELSE IF ~isdir(m.fs, v.path)
          THEN Refused(m.fs, "Path is not a directory: ", directory_path)
        ELSE scanned(m.fs, v, Filter(listdirSeq(m.fs, v.path), shown))
      validated(v) ==
        IF ~v.ok THEN Caught(fsx, v.err)
        ELSE made(v, makedirs(fsx, v.path))
  IN validated(validate_path(roots, directory_path))

\* list_directory without the test of include_hidden: every entry is listed
list_directory_all(fsx, roots, directory_path, include_hidden) ==
  LET listed(items) ==
        [fs |-> fsx,
         result |-> [success |-> TRUE, directory_path |-> directory_path,
                     items |-> items, count |-> Len(items)]]
      scanned(v, names) ==
        listed([k \in 1..Len(names) |-> item_info(fsx, names[k], join(v.path, names[k]))])
      validated(v) ==
        IF ~v.ok THEN Caught(fsx, v.err)
        ELSE IF ~exists(fsx, v.path)
          THEN Refused(fsx, "Directory not found: ", directory_path)
        ELSE IF ~isdir(fsx, v.path)
          THEN Refused(fsx, "Path is not a directory: ", directory_path)
        ELSE scanned(v, listdirSeq(fsx, v.path))
  IN validated(validate_path(roots, directory_path))

\* FilesystemHandler.list_directory
list_directory(fsx, roots, directory_path, include_hidden) ==
  LET shown(item) == include_hidden \/ ~ishidden(item)
      listed(items) ==
        [fs |-> fsx,
         result |-> [success |-> TRUE, directory_path |-> directory_path,
                     items |-> items, count |-> Len(items)]]
      scanned(v, names) ==
        listed([k \in 1..Len(names) |-> item_info(fsx, names[k], join(v.path, names[k]))])
      validated(v) ==
        IF ~v.ok THEN Caught(fsx, v.err)
        ELSE IF ~exists(fsx, v.path)
          THEN Refused(fsx, "Directory not found: ", directory_path)
        ELSE IF ~isdir(fsx, v.path)
          THEN Refused(fsx, "Path is not a directory: ", directory_path)
        ELSE scanned(v, Filter(listdirSeq(fsx, v.path), shown))
  IN validated(validate_path(roots, directory_path))

\* create_directory with os.makedirs(validated_path), exist_ok left out
create_directory_strict(fsx, roots, directory_path) ==
  LET made(m) ==
        IF ~m.ok THEN Caught(m.fs, m.err)
        ELSE [fs |-> m.fs,
              result |-> [success |-> TRUE,
                          message |-> <<"Directory created successfully: ", directory_path>>,
                          directory_path |-> directory_path]]
      validated(v) ==
        IF ~v.ok THEN Caught(fsx, v.err)
        ELSE IF Kind(fsx, Resolve(fsx, v.path, FALSE)) # "none"
          THEN Caught(fsx, OSErrorStr("[Errno 17] File exists: '", v.path))
        ELSE made(makedirs(fsx, v.path))
  IN validated(validate_path(roots, directory_path))

\* FilesystemHandler.create_directory
create_directory(fsx, roots, directory_path) ==
  LET made(m) ==
        IF ~m.ok THEN Caught(m.fs, m.err)
        ELSE [fs |-> m.fs,
              result |-> [success |-> TRUE,
                          message |-> <<"Directory created successfully: ", directory_path>>,
                          directory_path |-> directory_path]]
      validated(v) ==
        IF ~v.ok THEN Caught(fsx, v.err)
        ELSE made(makedirs(fsx, v.path))
  IN validated(validate_path(roots, directory_path))

\* FilesystemHandler.delete_file
delete_file(fsx, roots, file_path) ==
  LET removed(r) ==
        [fs |-> r.fs,
         result |-> [success |-> TRUE,
                     message |-> <<"File deleted successfully: ", file_path>>,
                     file_path |-> file_path]]
      validated(v) ==
        IF ~v.ok THEN Caught(fsx, v.err)
        ELSE IF ~exists(fsx, v.path) THEN Refused(fsx, "File not found: ", file_path)
        ELSE IF ~isfile(fsx, v.path) THEN Refused(fsx, "Path is not a file: ", file_path)
        ELSE removed(remove(fsx, v.path))
  IN validated(validate_path(roots, file_path))

\* delete_directory without the "not force and os.listdir" guard
delete_directory_unguarded(fsx, roots, directory_path, force) ==
  LET removed(r) ==
        IF ~r.ok THEN Caught(r.fs, r.err)
        ELSE [fs |-> r.fs,
              result |-> [success |-> TRUE,
                          message |-> <<"Directory deleted successfully: ", directory_path>>,
                          directory_path |-> directory_path]]
      validated(v) ==
        IF ~v.ok THEN Caught(fsx, v.err)
        ELSE IF ~exists(fsx, v.path)
          THEN Refused(fsx, "Directory not found: ", directory_path)
        ELSE IF ~isdir(fsx, v.path)
          THEN Refused(fsx, "Path is not a directory: ", directory_path)
        ELSE removed(rmtree(fsx, v.path))
  IN validated(validate_path(roots, directory_path))

\* FilesystemHandler.delete_directory
delete_directory(fsx, roots, directory_path, force) ==
  LET removed(r) ==
        IF ~r.ok THEN Caught(r.fs, r.err)
        ELSE [fs |-> r.fs,
              result |-> [success |-> TRUE,
                          message |-> <<"Directory deleted successfully: ", directory_path>>,
                          directory_path |-> directory_path]]
      validated(v) ==
        IF ~v.ok THEN Caught(fsx, v.err)
        ELSE IF ~exists(fsx, v.path)
          THEN Refused(fsx, "Directory not found: ", directory_path)
        ELSE IF ~isdir(fsx, v.path)
          THEN Refused(fsx, "Path is not a directory: ", directory_path)
        ELSE IF ~force /\ listdirSeq(fsx, v.path) # <<>>
          THEN [fs |-> fsx,
                result |-> [success |-> FALSE,
                            error |-> <<"Directory not empty: ", directory_path,
                                        ". Use force=True to delete.">>]]
        ELSE removed(rmtree(fsx, v.path))
  IN validated(validate_path(roots, directory_path))

\* the entry search_files reports for a match
match_info(fsx, match) ==
  [path |-> match,
   name |-> basename(match),
   type |-> IF isdir(fsx, match) THEN "directory" ELSE "file"]

\* FilesystemHandler.search_files
search_files(fsx, roots, search_path, pattern, recursive) ==
  LET allowed(match) == is_path_allowed(roots, match)
      found(results) ==
        [fs |-> fsx,
         result |-> [success |-> TRUE, search_path |-> search_path,
                     pattern |-> pattern, matches |-> results,
                     count |-> Len(results)]]
      filtered(allowed_matches) ==
        found([k \in 1..Len(allowed_matches) |-> match_info(fsx, allowed_matches[k])])
      validated(v) ==
        IF ~v.ok THEN Caught(fsx, v.err)
        ELSE IF ~exists(fsx, v.path)
          THEN Refused(fsx, "Search path not found: ", search_path)
        ELSE IF ~isdir(fsx, v.path)
          THEN Refused(fsx, "Search path is not a directory: ", search_path)
        ELSE filtered(Filter(glob(fsx, v.path, pattern, recursive), allowed))
  IN validated(validate_path(roots, search_path))

\* os.path.splitext(p)[1]
RECURSIVE LastDot(_, _)
LastDot(s, i) == IF i = 0 THEN 0 ELSE IF s[i] = "." THEN i ELSE LastDot(s, i - 1)

extension(p) ==
  LET ext(name, dot) ==
        IF dot > 0 /\ (\E j \in 1..(dot - 1) : name[j] # ".")
          THEN SubSeq(name, dot, Len(name)) ELSE <<>>
  IN ext(basename(p), LastDot(basename(p), Len(basename(p))))

\* st_size of a directory entry
DirSize == 4096

\* FilesystemHandler.get_file_info; the timestamps and the mode of the entry
\* are not modelled beyond their presence
get_file_info(fsx, roots, path) ==
  LET info(v, type, size) ==
        IF isfile(fsx, v.path)
          THEN [success |-> TRUE, path |-> path, name |-> basename(v.path),
                type |-> type, size |-> size,
                created |-> "st_ctime", modified |-> "st_mtime",
                permissions |-> "st_mode", extension |-> extension(v.path)]
          ELSE [success |-> TRUE, path |-> path, name |-> basename(v.path),
                type |-> type, size |-> size,
                created |-> "st_ctime", modified |-> "st_mtime",
                permissions |-> "st_mode"]
      validated(v) ==
        IF ~v.ok THEN Caught(fsx, v.err)
        ELSE IF ~exists(fsx, v.path) THEN Refused(fsx, "Path not found: ", path)
        ELSE [fs |-> fsx,
              result |-> info(v, IF isdir(fsx, v.path) THEN "directory" ELSE "file",
                              IF isdir(fsx, v.path) THEN DirSize
                              ELSE ByteLen(readContent(fsx, v.path)))]
  IN validated(validate_path(roots, path))

\* move_file without the "Destination already exists" check
move_file_overwrite(fsx, roots, source_path, destination_path) ==
  LET moved(r) ==
        IF ~r.ok THEN Caught(r.fs, r.err)
        ELSE [fs |-> r.fs,
              result |-> [success |-> TRUE,
                          message |-> <<"File moved successfully: ", source_path,
                                        " -> ", destination_path>>,
                          source_path |-> source_path,
                          destination_path |-> destination_path]]
      made(vs, vd, m) ==
        IF ~m.ok THEN Caught(m.fs, m.err)
        ELSE moved(move(m.fs, vs.path, vd.path))
      validated(vs, vd) ==
        IF ~vs.ok THEN Caught(fsx, vs.err)
        ELSE IF ~vd.ok THEN Caught(fsx, vd.err)
        ELSE IF ~exists(fsx, vs.path)
          THEN Refused(fsx, "Source file not found: ", source_path)
        ELSE made(vs, vd, makedirs(fsx, dirname(vd.path)))
  IN validated(validate_path(roots, source_path), validate_path(roots, destination_path))

\* move_file without the os.makedirs of the destination's parent
move_file_no_makedirs(fsx, roots, source_path, destination_path) ==
  LET moved(r) ==
        IF ~r.ok THEN Caught(r.fs, r.err)
        ELSE [fs |-> r.fs,
              result |-> [success |-> TRUE,
                          message |-> <<"File moved successfully: ", source_path,
                                        " -> ", destination_path>>,
                          source_path |-> source_path,
                          destination_path |-> destination_path]]
      validated(vs, vd) ==
        IF ~vs.ok THEN Caught(fsx, vs.err)
        ELSE IF ~vd.ok THEN Caught(fsx, vd.err)
        ELSE IF ~exists(fsx, vs.path)
          THEN Refused(fsx, "Source file not found: ", source_path)
        ELSE IF exists(fsx, vd.path)
          THEN Refused(fsx, "Destination already exists: ", destination_path)
        ELSE moved(move(fsx, vs.path, vd.path))
  IN validated(validate_path(roots, source_path), validate_path(roots, destination_path))

\* FilesystemHandler.move_file
move_file(fsx, roots, source_path, destination_path) ==
  LET moved(r) ==
        IF ~r.ok THEN Caught(r.fs, r.err)
        ELSE [fs |-> r.fs,
              result |-> [success |-> TRUE,
                          message |-> <<"File moved successfully: ", source_path,
                                        " -> ", destination_path>>,
                          source_path |-> source_path,
                          destination_path |-> destination_path]]
      made(vs, vd, m) ==
        IF ~m.ok THEN Caught(m.fs, m.err)
        ELSE moved(move(m.fs, vs.path, vd.path))
      validated(vs, vd) ==
        IF ~vs.ok THEN Caught(fsx, vs.err)
        ELSE IF ~vd.ok THEN Caught(fsx, vd.err)
        ELSE IF ~exists(fsx, vs.path)
          THEN Refused(fsx, "Source file not found: ", source_path)
        ELSE IF exists(fsx, vd.path)
          THEN Refused(fsx, "Destination already exists: ", destination_path)
        ELSE made(vs, vd, makedirs(fsx, dirname(vd.path)))
  IN validated(validate_path(roots, source_path), validate_path(roots, destination_path))

\* copy_file without the os.path.isfile test of the source
copy_file_any_source(fsx, roots, source_path, destination_path) ==
  LET copied(r) ==
        IF ~r.ok THEN Caught(r.fs, r.err)
        ELSE [fs |-> r.fs,
              result |-> [success |-> TRUE,
                          message |-> <<"File copied successfully: ", source_path,
                                        " -> ", destination_path>>,
                          source_path |-> source_path,
                          destination_path |-> destination_path]]
      made(vs, vd, m) ==
        IF ~m.ok THEN Caught(m.fs, m.err)
        ELSE copied(copy2(m.fs, vs.path, vd.path))
      validated(vs, vd) ==
        IF ~vs.ok THEN Caught(fsx, vs.err)
        ELSE IF ~vd.ok THEN Caught(fsx, vd.err)
        ELSE IF ~exists(fsx, vs.path)
          THEN Refused(fsx, "Source file not found: ", source_path)
        ELSE IF exists(fsx, vd.path)
          THEN Refused(fsx, "Destination already exists: ", destination_path)
        ELSE made(vs, vd, makedirs(fsx, dirname(vd.path)))
  IN validated(validate_path(roots, source_path), validate_path(roots, destination_path))

\* FilesystemHandler.copy_file
copy_file(fsx, roots, source_path, destination_path) ==
  LET copied(r) ==
        IF ~r.ok THEN Caught(r.fs, r.err)
        ELSE [fs |-> r.fs,
              result |-> [success |-> TRUE,
                          message |-> <<"File copied successfully: ", source_path,
                                        " -> ", destination_path>>,
                          source_path |-> source_path,
                          destination_path |-> destination_path]]
      made(vs, vd, m) ==
        IF ~m.ok THEN Caught(m.fs, m.err)
        ELSE copied(copy2(m.fs, vs.path, vd.path))
      validated(vs, vd) ==
        IF ~vs.ok THEN Caught(fsx, vs.err)
        ELSE IF ~vd.ok THEN Caught(fsx, vd.err)
        ELSE IF ~exists(fsx, vs.path)
          THEN Refused(fsx, "Source file not found: ", source_path)
        ELSE IF ~isfile(fsx, vs.path)
          THEN Refused(fsx, "Source is not a file: ", source_path)
        ELSE IF exists(fsx, vd.path)
          THEN Refused(fsx, "Destination already exists: ", destination_path)
        ELSE made(vs, vd, makedirs(fsx, dirname(vd.path)))
  IN validated(validate_path(roots, source_path), validate_path(roots, destination_path))

\* FilesystemHandler.get_allowed_directories
get_allowed_directories(fsx, roots) ==
  [fs |-> fsx,
   result |-> [success |-> TRUE, allowed_directories |-> roots, count |-> Len(roots)]]

\* the loop over the roots left after the first directory
makeRoots_first(fsx, roots, i) ==
  IF i > Len(roots) THEN Ok(fsx) ELSE makedirs(fsx, roots[i])

\* FilesystemHandler.__init__: the roots made absolute, then created on disk;
\* an error of makedirs propagates out of the constructor
RECURSIVE makeRoots(_, _, _)
makeRoots(fsx, roots, i) ==
  LET next(made) == IF ~made.ok THEN made ELSE makeRoots(made.fs, roots, i + 1)
  IN IF i > Len(roots) THEN Ok(fsx) ELSE next(makedirs(fsx, roots[i]))

init_handler(fsx, dirs) ==
  LET built(roots, made) ==
        [ok |-> made.ok, fs |-> made.fs, roots |-> roots,
         err |-> IF made.ok THEN <<>> ELSE made.err]
      absolute(roots) == built(roots, makeRoots(fsx, roots, 1))
  IN absolute([i \in 1..Len(dirs) |-> abspath(dirs[i])])

(***************************************************************************)
(* The handler as a state machine                                          *)
(***************************************************************************)

\* the list given to the constructor
RootsArg == <<PRoot, PW>>

\* the disk before the handler is constructed: the first root exists, holds
\* a file, a directory and a symlink to a directory outside every root
InitialDisk ==
  [n \in Nodes |->
     IF n \in {RootDir, PA, PRoot, PRootD, PO} THEN Dir
     ELSE IF n = PRootF THEN File(<<"h", "i">>)
     ELSE IF n = POF THEN File(<<"s">>)
     ELSE IF n = PRootL THEN Link(PO)
     ELSE Absent]

\* path strings callers supply
CUp == <<"/", "a", "/", "b", "b", "/", ".", ".", "/", "x">>
CRel == <<"b", "b", "/", "f">>

Candidates ==
  {PRoot, PRootF, PRootD, PRootDF, PRootL, PRootLF, PSib, PSibF, CUp, CRel, POF, PWF}

Sources == {PRoot, PRootF, PRootD, PRootDF, PRootL, PRootLF, PSibF, CUp, POF}

Destinations == {PRootF, PRootFX, PRootD, PRootDF, PRootLF, PSibF, CUp, PWF}

Contents == {<<"h", "i">>, <<"U+00E9">>, <<"CR", "LF">>}

\* glob patterns callers supply: every name, one name, and a name reached
\* through the parent directory
Patterns == {<<"*">>, <<"f">>, <<".", ".", "/", "f">>}

\* the longest file content of the model
MaxLen == 3

\* the number of calls of one run
MaxOps == 2

NoCall == [fn |-> "none"]
NoResult == [none |-> TRUE]

\* the handler h has been constructed and no call has been made
Constructed(h) ==
  /\ fs = h.fs
  /\ allowed_directories = h.roots
  /\ call = NoCall
  /\ result = NoResult
  /\ ops = 0

Init == Constructed(init_handler(InitialDisk, RootsArg))

\* the handler's operation fn returned r for the arguments args
Returned(fn, args, r) ==
  /\ call = NoCall
  /\ ops < MaxOps
  /\ IF "error" \in DOMAIN r.result THEN r.result.error # OutsideModel ELSE TRUE
  /\ \A n \in Nodes : r.fs[n].kind = "file" => Len(r.fs[n].content) <= MaxLen
  /\ fs' = r.fs
  /\ result' = r.result
  /\ call' = [fn |-> fn, args |-> args]
  /\ ops' = ops + 1
  /\ UNCHANGED allowed_directories

ReadFile ==
  \E p \in Candidates :
    Returned("read_file", [file_path |-> p], read_file(fs, allowed_directories, p))

WriteFile ==
  \E p \in Candidates, c \in Contents :
    Returned("write_file", [file_path |-> p, content |-> c],
             write_file(fs, allowed_directories, p, c))

AppendToFile ==
  \E p \in Candidates, c \in Contents :
    Returned("append_to_file", [file_path |-> p, content |-> c],
             append_to_file(fs, allowed_directories, p, c))

ListDirectory ==
  \E p \in Candidates, h \in BOOLEAN :
    Returned("list_directory", [directory_path |-> p, include_hidden |-> h],
             list_directory(fs, allowed_directories, p, h))

CreateDirectory ==
  \E p \in Candidates :
    Returned("create_directory", [directory_path |-> p],
             create_directory(fs, allowed_directories, p))

DeleteFile ==
  \E p \in Candidates :
    Returned("delete_file", [file_path |-> p], delete_file(fs, allowed_directories, p))

DeleteDirectory ==
  \E p \in Candidates, force \in BOOLEAN :
    Returned("delete_directory", [directory_path |-> p, force |-> force],
             delete_directory(fs, allowed_directories, p, force))

SearchFiles ==
  \E p \in Candidates, pat \in Patterns, rec \in BOOLEAN :
    Returned("search_files", [search_path |-> p, pattern |-> pat, recursive |-> rec],
             search_files(fs, allowed_directories, p, pat, rec))

GetFileInfo ==
  \E p \in Candidates :
    Returned("get_file_info", [path |-> p], get_file_info(fs, allowed_directories, p))

MoveFile ==
  \E s \in Sources, d \in Destinations :
    Returned("move_file", [source_path |-> s, destination_path |-> d],
             move_file(fs, allowed_directories, s, d))

CopyFile ==
  \E s \in Sources, d \in Destinations :
    Returned("copy_file", [source_path |-> s, destination_path |-> d],
             copy_file(fs, allowed_directories, s, d))

GetAllowedDirectories ==
  Returned("get_allowed_directories", <<>>,
           get_allowed_directories(fs, allowed_directories))

\* the caller has consumed the result: an OperationResult lives for one call
Forget ==
  /\ call # NoCall
  /\ call' = NoCall
  /\ result' = NoResult
  /\ UNCHANGED <<fs, allowed_directories, ops>>

Next ==
  \/ ReadFile
  \/ WriteFile
  \/ AppendToFile
  \/ ListDirectory
  \/ CreateDirectory
  \/ DeleteFile
  \/ DeleteDirectory
  \/ SearchFiles
  \/ GetFileInfo
  \/ MoveFile
  \/ CopyFile
  \/ GetAllowedDirectories
  \/ Forget

Spec == Init /\ [][Next]_vars

(***************************************************************************)
(* Properties of the handler                                               *)
(***************************************************************************)

OnePathOps ==
  {"read_file", "write_file", "append_to_file", "list_directory", "create_directory",
   "delete_file", "delete_directory", "search_files", "get_file_info"}

TwoPathOps == {"move_file", "copy_file"}

\* the path-typed arguments of a call, in the order of the signature
PathArgs(c) ==
  IF c.fn \in {"read_file", "write_file", "append_to_file", "delete_file"}
    THEN <<c.args.file_path>>
  ELSE IF c.fn \in {"list_directory", "create_directory", "delete_directory"}
    THEN <<c.args.directory_path>>
  ELSE IF c.fn = "search_files" THEN <<c.args.search_path>>
  ELSE IF c.fn = "get_file_info" THEN <<c.args.path>>
  ELSE IF c.fn \in TwoPathOps THEN <<c.args.source_path, c.args.destination_path>>
  ELSE <<>>

Range(seq) == {seq[i] : i \in 1..Len(seq)}

\* q is an allowed root or lies below one, compared segment by segment
UnderSomeRoot(q) == \E i \in 1..Len(allowed_directories) : Within(q, allowed_directories[i])

\* the access-denied result the contract prescribes for the supplied string p
DeniedResult(p) ==
  [success |-> FALSE,
   error |-> <<"Access denied: Path '", p, "' is outside allowed directories">>]

\* C1: a call is let through validation if and only if the canonicalized
\* candidate is an allowed root or a descendant of one on a segment boundary.
C1_Containment ==
  call.fn \in OnePathOps =>
    LET p == PathArgs(call)[1]
    IN (result # DeniedResult(p)) <=> UnderSomeRoot(abspath(p))

\* C2: a candidate that lies lexically under a root but whose real target,
\* symlinks resolved, is outside every root is denied.
C2_SymlinkEscapeRejected ==
  [][\A p \in Range(PathArgs(call')) :
       (UnderSomeRoot(abspath(p)) /\ ~UnderSomeRoot(realpath(fs, abspath(p))))
         => result' = DeniedResult(p)]_vars

\* C3: no call creates, modifies or deletes an entry outside every root, and
\* read_file returns no content of a file outside every root.
C3_Confinement ==
  [][/\ \A n \in Nodes : fs'[n] # fs[n] => UnderSomeRoot(n)
     /\ (call'.fn = "read_file" /\ result'.success)
          => UnderSomeRoot(realpath(fs, abspath(call'.args.file_path)))]_vars

\* C4: when a path argument fails validation the call returns the
\* access-denied result naming the supplied string of an offending argument
\* and leaves the disk as it was.
C4_AccessDenied ==
  [][LET bad == {p \in Range(PathArgs(call')) : ~is_path_allowed(allowed_directories, p)}
     IN bad # {} => /\ fs' = fs
                    /\ \E p \in bad : result' = DeniedResult(p)]_vars

\* C4 witness: copy_file with an allowed source and a destination outside
\* the roots was denied for the destination string.
C4_Witness ==
  /\ call.fn = "copy_file"
  /\ is_path_allowed(allowed_directories, call.args.source_path)
  /\ ~is_path_allowed(allowed_directories, call.args.destination_path)
  /\ call.args.destination_path # abspath(call.args.destination_path)
  /\ result = DeniedResult(call.args.destination_path)

\* the result "Destination already exists: <destination>"
DestinationExists(d) ==
  [success |-> FALSE, error |-> <<"Destination already exists: ", d>>]

\* C5 as stated: with the destination present, copy_file and move_file
\* always answer "Destination already exists" and change nothing.
C5_AlwaysDestinationExists ==
  [][(/\ call'.fn \in TwoPathOps
      /\ UnderSomeRoot(abspath(call'.args.source_path))
      /\ UnderSomeRoot(abspath(call'.args.destination_path))
      /\ exists(fs, abspath(call'.args.destination_path)))
       => /\ result' = DestinationExists(call'.args.destination_path)
          /\ fs' = fs]_vars

\* C5 amended: with the destination present, copy_file and move_file return
\* success=false and change nothing; the error is "Destination already
\* exists" when both paths pass validation and the source exists (and, for
\* copy_file, is a regular file).
C5_NoSilentOverwrite ==
  [][(call'.fn \in TwoPathOps /\ exists(fs, abspath(call'.args.destination_path)))
       => LET s == call'.args.source_path
              d == call'.args.destination_path
          IN /\ ~result'.success
             /\ fs' = fs
             /\ (/\ is_path_allowed(allowed_directories, s)
                 /\ is_path_allowed(allowed_directories, d)
                 /\ exists(fs, abspath(s))
                 /\ (call'.fn = "copy_file" => isfile(fs, abspath(s))))
                  => result' = DestinationExists(d)]_vars

\* C5 witness: move_file of an existing file onto itself was refused.
C5_Witness ==
  /\ call.fn = "move_file"
  /\ call.args.source_path = call.args.destination_path
  /\ isfile(fs, abspath(call.args.source_path))
  /\ result = DestinationExists(call.args.destination_path)

\* the outcome C6 prescribes for delete_directory on the directory at v
DeleteGuard(v) ==
  IF ~call'.args.force /\ listdir(fs, v) # {}
    THEN ~result'.success /\ fs' = fs
    ELSE /\ result'.success
         /\ \A n \in Nodes : Within(n, realpath(fs, v)) => fs'[n] = Absent

C6_WitnessForce ==
  /\ call.fn = "delete_directory"
  /\ call.args.force
  /\ call.args.directory_path = PRoot
  /\ result.success
  /\ fs[PRoot] = Absent /\ fs[PRootF] = Absent

SecondCreate == create_directory(fs, allowed_directories, call.args.directory_path)

\* C7 as stated: on every allowed path create_directory succeeds, and a
\* second call succeeds too and changes nothing.
C7_CreateAlwaysSucceeds ==
  (call.fn = "create_directory"
     /\ is_path_allowed(allowed_directories, call.args.directory_path))
    => /\ result.success
       /\ SecondCreate.result.success
       /\ SecondCreate.fs = fs

\* C7 amended: once create_directory has succeeded on a path, a second call
\* on that path succeeds and changes nothing on disk.
C7_IdempotentCreate ==
  (call.fn = "create_directory" /\ result.success)
    => /\ SecondCreate.result.success
       /\ SecondCreate.result = result
       /\ SecondCreate.fs = fs

\* C7 witness: create_directory succeeded on a directory that holds entries.
C7_Witness ==
  /\ call.fn = "create_directory"
  /\ result.success
  /\ listdir(fs, abspath(call.args.directory_path)) # {}

\* C8: every match search_files reports is an entry whose real location
\* (the symlinks of its directory part resolved) is under a root.
C8_SearchConfined ==
  (call.fn = "search_files" /\ result.success)
    => \A k \in 1..Len(result.matches) :
         UnderSomeRoot(Resolve(fs, result.matches[k].path, FALSE))

\* the read_file that immediately follows the write_file that has just returned
ReadBack == read_file(fs, allowed_directories, call.args.file_path).result

\* C9: after a successful write_file(p, c), read_file(p) returns c and the
\* size the write reported.
C9_RoundTrip ==
  (call.fn = "write_file" /\ result.success)
    => /\ ReadBack.success
       /\ ReadBack.content = call.args.content
       /\ ReadBack.size = result.size

(***************************************************************************)
(* The dispatchers: a function name and an argument map                    *)
(***************************************************************************)

\* the keys of handle_function_call's function_map
OperationTable ==
  {"read_file", "write_file", "append_to_file", "list_directory", "create_directory",
   "delete_file", "delete_directory", "search_files", "get_file_info", "move_file",
   "copy_file", "get_allowed_directories"}

\* what getattr(handler, name) finds: a method of the class, the constructor,
\* the class itself, the list attribute, or nothing (AttributeError)
Attribute(name) ==
  IF name \in OperationTable \cup {"_is_path_allowed", "_validate_path"} THEN "method"
  ELSE IF name = "__init__" THEN "constructor"
  ELSE IF name = "__class__" THEN "class"
  ELSE IF name = "allowed_directories" THEN "data"
  ELSE "missing"

\* the parameters of a method: those without a default, and the defaults
Required(name) ==
  IF name \in {"read_file", "delete_file"} THEN {"file_path"}
  ELSE IF name \in {"write_file", "append_to_file"} THEN {"file_path", "content"}
  ELSE IF name \in {"list_directory", "create_directory", "delete_directory"}
    THEN {"directory_path"}
  ELSE IF name = "search_files" THEN {"search_path", "pattern"}
  ELSE IF name \in {"get_file_info", "_is_path_allowed", "_validate_path"} THEN {"path"}
  ELSE IF name \in {"move_file", "copy_file"} THEN {"source_path", "destination_path"}
  ELSE {}

Optional(name) ==
  IF name = "list_directory" THEN {"include_hidden"}
  ELSE IF name = "delete_directory" THEN {"force"}
  ELSE IF name = "search_files" THEN {"recursive"}
  ELSE IF name \in {"__init__", "__class__"} THEN {"allowed_directories"}
  ELSE {}

\* arguments.get(key, default)
Get(args, key, default) == IF key \in DOMAIN args THEN args[key] ELSE default

\* a value returned that is no result mapping (None, a bool, a str, an object)
NonDict(v) == [value |-> v]

Raised(fsx, roots, exc, text) ==
  [fs |-> fsx, roots |-> roots, raised |-> TRUE, exc |-> exc, err |-> text]

Value(fsx, roots, v) == [fs |-> fsx, roots |-> roots, raised |-> FALSE, value |-> v]

\* FilesystemHandler(allowed_directories) run on the object that holds roots:
\* the list is assigned before the directories are made
construct(fsx, roots, args) ==
  LET built(h) ==
        IF h.ok THEN Value(h.fs, h.roots, NonDict("None"))
        ELSE Raised(h.fs, h.roots, "OSError", h.err)
  IN built(init_handler(fsx, Get(args, "allowed_directories", RootsArg)))

\* method(**arguments): the bound method name of the handler called with the
\* keyword arguments args
call_method(fsx, roots, name, args) ==
  LET op(r) == Value(r.fs, roots, r.result)
      instance(made) ==
        IF made.raised THEN Raised(made.fs, roots, made.exc, made.err)
        ELSE Value(made.fs, roots, NonDict("FilesystemHandler"))
      checked(v) ==
        IF v.ok THEN Value(fsx, roots, NonDict(v.path))
        ELSE Raised(fsx, roots, "PermissionError", v.err)
  IN IF Attribute(name) = "data"
       THEN Raised(fsx, roots, "TypeError", <<"'list' object is not callable">>)
     ELSE IF ~(DOMAIN args \subseteq (Required(name) \cup Optional(name)))
       THEN Raised(fsx, roots, "TypeError",
                   <<name, "() got an unexpected keyword argument">>)
     ELSE IF ~(Required(name) \subseteq DOMAIN args)
       THEN Raised(fsx, roots, "TypeError",
                   <<name, "() missing required positional arguments">>)
     ELSE IF name = "__init__" THEN construct(fsx, roots, args)
     ELSE IF name = "__class__" THEN instance(construct(fsx, roots, args))
     ELSE IF name = "read_file" THEN op(read_file(fsx, roots, args.file_path))
     ELSE IF name = "write_file"
       THEN op(write_file(fsx, roots, args.file_path, args.content))
     ELSE IF name = "append_to_file"
       THEN op(append_to_file(fsx, roots, args.file_path, args.content))
     ELSE IF name = "list_directory"
       THEN op(list_directory(fsx, roots, args.directory_path,
                              Get(args, "include_hidden", FALSE)))
     ELSE IF name = "create_directory"
       THEN op(create_directory(fsx, roots, args.directory_path))
     ELSE IF name = "delete_file" THEN op(delete_file(fsx, roots, args.file_path))
     ELSE IF name = "delete_directory"
       THEN op(delete_directory(fsx, roots, args.directory_path, Get(args, "force", FALSE)))
     ELSE IF name = "search_files"
       THEN op(search_files(fsx, roots, args.search_path, args.pattern,
                            Get(args, "recursive", TRUE)))
     ELSE IF name = "get_file_info" THEN op(get_file_info(fsx, roots, args.path))
     ELSE IF name = "move_file"
       THEN op(move_file(fsx, roots, args.source_path, args.destination_path))
     ELSE IF name = "copy_file"
       THEN op(copy_file(fsx, roots, args.source_path, args.destination_path))
     ELSE IF name = "get_allowed_directories" THEN op(get_allowed_directories(fsx, roots))
     ELSE IF name = "_is_path_allowed"
       THEN Value(fsx, roots, NonDict(is_path_allowed(roots, args.path)))
     ELSE checked(validate_path(roots, args.path))

\* str.replace
RECURSIVE ReplaceAll(_, _, _)
ReplaceAll(str, old, new) ==
  IF str = <<>> THEN <<>>
  ELSE IF StartsWith(str, old)
    THEN new \o ReplaceAll(SubSeq(str, Len(old) + 1, Len(str)), old, new)
  ELSE <<Head(str)>> \o ReplaceAll(Tail(str), old, new)

\* the "fix common search patterns" step of execute_function
fix_pattern(pattern) ==
  IF StartsWith(pattern, <<"\\">>) /\ pattern[Len(pattern)] = "$"
    THEN ReplaceAll(ReplaceAll(ReplaceAll(pattern, <<"\\", ".", "p", "y", "$">>,
                                          <<"*", ".", "p", "y">>),
                               <<"\\">>, <<>>),
                    <<"$">>, <<>>)
    ELSE pattern

\* arguments[to] = arguments[from]; del arguments[from]
Rekey(args, from, to) ==
  [k \in (DOMAIN args \ {from}) \cup {to} |-> IF k = to THEN args[from] ELSE args[k]]

\* the mapping without `del arguments['path']`: the generic key stays
map_path_keep(name, args, fix) ==
  LET added(key) == [k \in DOMAIN args \cup {key} |-> args["path"]] @@ args
      fixed(mapped) ==
        IF fix /\ "pattern" \in DOMAIN mapped
          THEN [mapped EXCEPT !["pattern"] = fix_pattern(mapped["pattern"])]
          ELSE mapped
  IN IF args = <<>> \/ "path" \notin DOMAIN args THEN args
     ELSE IF name \in {"read_file", "write_file"} THEN added("file_path")
     ELSE IF name \in {"list_directory", "create_directory"} THEN added("directory_path")
     ELSE IF name = "search_files" THEN fixed(added("search_path"))
     ELSE args

\* the generic 'path' key mapped to the parameter name of the operation
map_path(name, args, fix) ==
  LET fixed(mapped) ==
        IF fix /\ "pattern" \in DOMAIN mapped
          THEN [mapped EXCEPT !["pattern"] = fix_pattern(mapped["pattern"])]
          ELSE mapped
  IN IF args = <<>> \/ "path" \notin DOMAIN args THEN args
     ELSE IF name \in {"read_file", "write_file"} THEN Rekey(args, "path", "file_path")
     ELSE IF name \in {"list_directory", "create_directory"}
       THEN Rekey(args, "path", "directory_path")
     ELSE IF name = "search_files" THEN fixed(Rekey(args, "path", "search_path"))
     ELSE args

Outcome(r, res) == [fs |-> r.fs, roots |-> r.roots, result |-> res]

\* QwenFilesystemIntegrationV4.execute_function (V3 is the same code)
execute_function_v4(fsx, roots, function_name, arguments) ==
  LET returned(r) ==
        IF r.raised
          THEN Outcome(r, [success |-> FALSE,
                           error |-> <<"Function execution error: ">> \o r.err])
          ELSE Outcome(r, r.value)
  IN IF Attribute(function_name) = "missing"
       THEN [fs |-> fsx, roots |-> roots,
             result |-> [success |-> FALSE,
                         error |-> <<"Unknown function: ", function_name>>]]
     ELSE returned(call_method(fsx, roots, function_name,
                               map_path(function_name, arguments, TRUE)))

\* LMStudioEnhancer.execute_function
execute_function_enhancer(fsx, roots, function_name, arguments) ==
  LET returned(r) ==
        IF r.raised THEN Outcome(r, [success |-> FALSE, error |-> r.err])
        ELSE Outcome(r, r.value)
  IN IF Attribute(function_name) = "missing"
       THEN [fs |-> fsx, roots |-> roots,
             result |-> [success |-> FALSE,
                         error |-> <<"'FilesystemHandler' object has no attribute '",
                                     function_name, "'">>]]
     ELSE returned(call_method(fsx, roots, function_name,
                               map_path(function_name, arguments, FALSE)))

\* handle_function_call: a new FilesystemHandler() per call, the name looked
\* up in function_map; the long-lived handler (roots) is not involved.  An
\* exception of the constructor is not caught.
handle_function_call(fsx, roots, function_name, arguments) ==
  LET returned(r) ==
        IF r.raised
          THEN [fs |-> r.fs, roots |-> roots,
                result |-> [success |-> FALSE,
                            error |-> <<"Function call failed: ">> \o r.err]]
          ELSE [fs |-> r.fs, roots |-> roots, result |-> r.value]
      handler(made) ==
        IF made.raised
          THEN [fs |-> made.fs, roots |-> roots,
                result |-> [escaped |-> made.exc, error |-> made.err]]
        ELSE IF function_name \notin OperationTable
          THEN [fs |-> made.fs, roots |-> roots,
                result |-> [success |-> FALSE,
                            error |-> <<"Unknown function: ", function_name>>]]
        ELSE returned(call_method(made.fs, made.roots, function_name, arguments))
  IN handler(construct(fsx, RootsArg, <<>>))

\* function names callers supply
FunctionNames ==
  OperationTable \cup
    {"__init__", "__class__", "_validate_path", "_is_path_allowed", "allowed_directories",
     "format_disk"}

\* argument maps callers supply
ArgMaps ==
  {<<>>,
   [path |-> PRootF],
   [path |-> CUp],
   [path |-> PRoot, pattern |-> <<"\\", ".", "p", "y", "$">>],
   [path |-> PRootDF, content |-> <<"h", "i">>],
   [file_path |-> PSibF, content |-> <<"U+00E9">>],
   [directory_path |-> PRootD],
   [directory_path |-> PRoot, force |-> TRUE],
   [search_path |-> PRoot, pattern |-> <<"f">>],
   [source_path |-> PRootF, destination_path |-> PWF],
   [allowed_directories |-> <<PO>>],
   [allowed_directories |-> <<PRootF>>]}

\* a dispatcher returned r for the name and the argument map
Dispatched(via, name, args, r) ==
  /\ call = NoCall
  /\ ops < MaxOps
  /\ IF "success" \in DOMAIN r.result /\ "error" \in DOMAIN r.result
       THEN r.result.error # OutsideModel
            /\ r.result.error # <<"Function execution error: ">> \o OutsideModel
            /\ r.result.error # <<"Function call failed: ">> \o OutsideModel
       ELSE TRUE
  /\ \A n \in Nodes : r.fs[n].kind = "file" => Len(r.fs[n].content) <= MaxLen
  /\ fs' = r.fs
  /\ allowed_directories' = r.roots
  /\ result' = r.result
  /\ call' = [fn |-> via, function_name |-> name, arguments |-> args]
  /\ ops' = ops + 1

ExecuteFunctionV4 ==
  \E name \in FunctionNames, args \in ArgMaps :
    Dispatched("v4.execute_function", name, args,
               execute_function_v4(fs, allowed_directories, name, args))

ExecuteFunctionEnhancer ==
  \E name \in FunctionNames, args \in ArgMaps :
    Dispatched("enhancer.execute_function", name, args,
               execute_function_enhancer(fs, allowed_directories, name, args))

HandleFunctionCall ==
  \E name \in FunctionNames, args \in ArgMaps :
    Dispatched("handle_function_call", name, args,
               handle_function_call(fs, allowed_directories, name, args))

NextDispatch ==
  \/ ExecuteFunctionV4
  \/ ExecuteFunctionEnhancer
  \/ HandleFunctionCall
  \/ GetAllowedDirectories
  \/ Forget

SpecDispatch == Init /\ [][NextDispatch]_vars

\* the list fixed at construction
ConstructedRoots == [i \in 1..Len(RootsArg) |-> abspath(RootsArg[i])]

\* C10: the handler's list of allowed directories is the list fixed at
\* construction, whatever has been called, and get_allowed_directories
\* returns exactly that list and its count.
C10_RootsImmutable ==
  /\ allowed_directories = ConstructedRoots
  /\ call.fn = "get_allowed_directories"
       => result = [success |-> TRUE, allowed_directories |-> ConstructedRoots,
                    count |-> Len(ConstructedRoots)]

(***************************************************************************)
(* Failures as data                                                        *)
(***************************************************************************)

\* the disk when another program has stored bytes that are no UTF-8 text in
\* the file of the first root
FaultDisk == [InitialDisk EXCEPT ![PRootF] = File(<<"0xFF">>)]

InitFaults == Constructed(init_handler(FaultDisk, RootsArg))

SpecFaults == InitFaults /\ [][Next]_vars

C13_UnknownNameTouchesNothing ==
  [][(call'.fn = "handle_function_call" /\ call'.function_name \notin OperationTable)
       => /\ result' = [success |-> FALSE,
                        error |-> <<"Unknown function: ", call'.function_name>>]
          /\ fs' = fs]_vars

(***************************************************************************)
(* The bridge (lmstudio_bridge.py)                                         *)
(***************************************************************************)

\* a disk on which the second default root cannot be created: a regular
\* file has its name
BlockedDisk == [InitialDisk EXCEPT ![PW] = File(<<"s">>)]

\* what main prints: the JSON documents, each represented by the mapping it
\* encodes
Printed(fsx, roots, doc) == [fs |-> fsx, roots |-> roots, result |-> [printed |-> <<doc>>]]

\* lmstudio_bridge.main for the text input_data, given as what json.loads
\* makes of it: a JSONDecodeError (kind "invalid"), a value that is no
\* object (kind "array"), or the object (kind "object", value)
main(fsx, roots, input_data) ==
  LET handled(r) ==
        IF "escaped" \in DOMAIN r.result
          THEN Printed(r.fs, r.roots,
                       [success |-> FALSE, error |-> <<"Bridge error: ">> \o r.result.error])
          ELSE Printed(r.fs, r.roots, r.result)
      extracted(function_name, arguments) ==
        IF function_name \in {"None", ""}
          THEN Printed(fsx, roots,
                       [success |-> FALSE, error |-> <<"Missing function_name in input">>])
          ELSE handled(handle_function_call(fsx, roots, function_name, arguments))
  IN IF input_data.kind = "invalid"
       THEN Printed(fsx, roots, [success |-> FALSE, error |-> <<"Invalid JSON input">>])
     ELSE IF input_data.kind # "object"
       THEN Printed(fsx, roots,
                    [success |-> FALSE,
                     error |-> <<"Bridge error: ", "'list' object has no attribute 'get'">>])
     ELSE extracted(Get(input_data.value, "function_name", "None"),
                    Get(input_data.value, "arguments", <<>>))

\* inputs the bridge is started with
BridgeInputs ==
  {[kind |-> "invalid"],
   [kind |-> "array"],
   [kind |-> "object", value |-> <<>>],
   [kind |-> "object", value |-> [arguments |-> [path |-> PRootF]]],
   [kind |-> "object", value |-> [function_name |-> ""]],
   [kind |-> "object", value |-> [function_name |-> "get_allowed_directories"]],
   [kind |-> "object", value |-> [function_name |-> "format_disk"]],
   [kind |-> "object",
    value |-> [function_name |-> "read_file", arguments |-> [file_path |-> PRootF]]],
   [kind |-> "object",
    value |-> [function_name |-> "read_file", arguments |-> [path |-> PRootF]]],
   [kind |-> "object",
    value |-> [function_name |-> "write_file",
               arguments |-> [file_path |-> PWF, content |-> <<"h", "i">>]]]}

BridgeMain ==
  \E input_data \in BridgeInputs :
    Dispatched("bridge.main", "main", input_data,
               main(fs, allowed_directories, input_data))

\* the bridge is a process per call: the disk is as construction of an
\* earlier process left it, or one on which a default root is blocked
InitBridge ==
  /\ fs \in {init_handler(InitialDisk, RootsArg).fs, BlockedDisk}
  /\ allowed_directories = ConstructedRoots
  /\ call = NoCall
  /\ result = NoResult
  /\ ops = 0

NextBridge ==
  \/ HandleFunctionCall
  \/ BridgeMain
  \/ Forget

SpecBridge == InitBridge /\ [][NextBridge]_vars

\* C14: handle_function_call returns a document with a success field for
\* every name, argument map and disk, and main prints exactly one such
\* document.
C14_DispatcherTotal ==
  /\ call.fn = "handle_function_call" => "success" \in DOMAIN result
  /\ call.fn = "bridge.main"
       => Len(result.printed) = 1 /\ "success" \in DOMAIN result.printed[1]

(***************************************************************************)
(* QwenFilesystemIntegrationV5.execute_function                            *)
(***************************************************************************)

CodeAnalysisFunctions ==
  {"analyze_code", "explain_code", "get_code_metrics", "extract_functions",
   "find_dependencies", "debug_code", "optimize_code"}

valid_functions ==
  {"read_file", "write_file", "list_directory", "create_directory", "search_files",
   "get_file_info"} \cup CodeAnalysisFunctions

\* open(file_path, 'r', encoding='utf-8') and f.read() of the code_analyzer
\* functions: the text read and the file it was read from, or the error
open_read(fsx, file_path) ==
  LET at(q) ==
        IF Kind(fsx, q) = "dir"
          THEN Fail(fsx, "IsADirectoryError",
                    OSErrorStr("[Errno 21] Is a directory: '", file_path))
        ELSE IF Kind(fsx, dirname(q)) = "file"
          THEN Fail(fsx, "NotADirectoryError",
                    OSErrorStr("[Errno 20] Not a directory: '", file_path))
        ELSE IF Kind(fsx, q) # "file"
          THEN Fail(fsx, "FileNotFoundError",
                    OSErrorStr("[Errno 2] No such file or directory: '", file_path))
        ELSE IF ~decodable(fsx[q].content)
          THEN Fail(fsx, "UnicodeDecodeError", UnicodeDecodeErrorStr)
        ELSE [ok |-> TRUE, fs |-> fsx, content |-> decode_text(fsx[q].content),
              file |-> q]
  IN at(Resolve(fsx, IF StartsWith(file_path, <<"/">>) THEN file_path
                     ELSE join(Cwd, file_path), TRUE))

\* the text a code_analyzer function puts before str(e) when the read fails
FailedText(function_name) ==
  CASE function_name = "analyze_code" -> "Failed to analyze code: "
    [] function_name = "explain_code" -> "Failed to explain code: "
    [] function_name = "get_code_metrics" -> "Failed to get metrics: "
    [] function_name = "extract_functions" -> "Failed to extract functions: "
    [] function_name = "find_dependencies" -> "Failed to find dependencies: "
    [] function_name = "debug_code" -> "Failed to debug code: "
    [] function_name = "optimize_code" -> "Failed to analyze optimization: "

\* the key under which execute_code_analysis_function returns the value
ResultKey(function_name) ==
  CASE function_name = "analyze_code" -> "analysis"
    [] function_name = "explain_code" -> "explanation"
    [] function_name = "get_code_metrics" -> "metrics"
    [] function_name = "extract_functions" -> "functions"
    [] function_name = "find_dependencies" -> "dependencies"
    [] function_name = "debug_code" -> "debug_analysis"
    [] function_name = "optimize_code" -> "optimization_analysis"

\* code_analyzer.analyze_code, explain_code, get_code_metrics,
\* extract_functions, find_dependencies, debug_code, optimize_code: the file
\* is opened and read, the CodeAnalyzer computes the value from the text (of
\* analyze_code the file_info is kept, of the others the text analysed); an
\* exception becomes the value
code_analyzer(fsx, function_name, file_path) ==
  LET computed(content) ==
        IF function_name = "analyze_code"
          THEN [file_info |-> [filename |-> basename(file_path), path |-> file_path,
                               size_bytes |-> ByteLen(content)]]
          ELSE [analysed |-> content]
      read(r) ==
        IF r.ok THEN [value |-> computed(r.content), opened |-> {r.file}]
        ELSE [value |-> [error |-> <<FailedText(function_name)>> \o r.err],
              opened |-> {}]
  IN read(open_read(fsx, file_path))

\* QwenFilesystemIntegrationV5.execute_code_analysis_function; opened is the
\* set of files the call has read
execute_code_analysis_function(fsx, roots, function_name, arguments) ==
  LET answered(a) ==
        [fs |-> fsx, roots |-> roots, opened |-> a.opened,
         result |-> [k \in {"success", ResultKey(function_name)} |->
                       IF k = "success" THEN TRUE ELSE a.value]]
  IN IF "path" \notin DOMAIN arguments
       THEN [fs |-> fsx, roots |-> roots, opened |-> {},
             result |-> [success |-> FALSE,
                         error |-> <<"Code analysis functions require a 'path' parameter">>]]
     ELSE answered(code_analyzer(fsx, function_name, arguments["path"]))

\* V5: the name is tested against valid_functions first, the code analysis
\* functions go to execute_code_analysis_function, the rest is the V4 code
execute_function_v5(fsx, roots, function_name, arguments) ==
  LET returned(r) ==
        IF r.raised
          THEN Outcome(r, [success |-> FALSE,
                           error |-> <<"Function execution error: ">> \o r.err])
          ELSE Outcome(r, r.value)
  IN IF function_name \notin valid_functions
       THEN [fs |-> fsx, roots |-> roots,
             result |-> [success |-> FALSE,
                         error |-> <<"Unknown function: ", function_name,
                                     ". Valid functions are: ", "valid_functions">>]]
     ELSE IF function_name \in CodeAnalysisFunctions
       THEN execute_code_analysis_function(fsx, roots, function_name, arguments)
     ELSE returned(call_method(fsx, roots, function_name,
                               map_path(function_name, arguments, TRUE)))

ExecuteFunctionV5 ==
  \E name \in FunctionNames, args \in ArgMaps :
    Dispatched("v5.execute_function", name, args,
               execute_function_v5(fs, allowed_directories, name, args))

NextNormalize ==
  \/ ExecuteFunctionV5
  \/ ExecuteFunctionEnhancer
  \/ Forget

SpecNormalize == Init /\ [][NextNormalize]_vars

\* the operations whose path parameter the generic key stands for, and the
\* name of that parameter
NormalizedOps ==
  {"read_file", "write_file", "list_directory", "create_directory", "search_files",
   "get_file_info"}

PathKey(name) ==
  IF name \in {"read_file", "write_file"} THEN "file_path"
  ELSE IF name \in {"list_directory", "create_directory"} THEN "directory_path"
  ELSE IF name = "search_files" THEN "search_path"
  ELSE "path"

\* the arguments with the value of 'path' under the operation's own name and
\* every other argument as the caller gave it
Renamed(name, args) ==
  [k \in (DOMAIN args \ {"path"}) \cup {PathKey(name)} |->
     IF k = PathKey(name) THEN args["path"] ELSE args[k]]

\* as Renamed, but V5 rewrites a search pattern written as a regular expression
RenamedV5(via, name, args) ==
  LET fixed(mapped) ==
        IF via = "v5.execute_function" /\ name = "search_files"
           /\ "pattern" \in DOMAIN mapped
          THEN [mapped EXCEPT !["pattern"] = fix_pattern(mapped["pattern"])]
          ELSE mapped
  IN fixed(Renamed(name, args))

\* the step is an execute_function call of a normalized operation with the
\* generic key
NormalizedCall ==
  /\ call'.fn \in {"v5.execute_function", "enhancer.execute_function"}
  /\ call'.function_name \in NormalizedOps
  /\ "path" \in DOMAIN call'.arguments

\* the step left what the gateway operation does when invoked with passed
GatewayInvokedWith(passed) ==
  LET answered(expected) ==
        /\ fs' = expected.fs
        /\ IF expected.raised THEN result'.success = FALSE
           ELSE result' = expected.value
  IN answered(call_method(fs, allowed_directories, call'.function_name, passed))

\* C15 (as stated): execute_function with the generic key 'path' invokes the
\* gateway operation with the value under the operation-specific name, the
\* generic key removed, and all other arguments unchanged.
C15_OtherArgumentsUnchanged ==
  [][NormalizedCall
       => GatewayInvokedWith(Renamed(call'.function_name, call'.arguments))]_vars

\* C15 (amended): as above, except that V5 passes a search_files pattern that
\* starts with a backslash and ends with '$' rewritten as a glob pattern.
C15_Normalized ==
  [][NormalizedCall
       => GatewayInvokedWith(RenamedV5(call'.fn, call'.function_name,
                                       call'.arguments))]_vars

C15_Witness ==
  /\ call.fn = "v5.execute_function"
  /\ call.function_name = "read_file"
  /\ call.arguments = [path |-> PRootF]
  /\ result.success
  /\ result.content = <<"h", "i">>

(***************************************************************************)
(* Concurrent callers: the steps of write_file, copy_file and move_file    *)
(***************************************************************************)

Procs == {1, 2}

\* the file an open handle refers to has been replaced under its name
Detached == <<"(unlinked)">>

Finished(fsx, res) == [fs |-> fsx, done |-> TRUE, result |-> res]

\* write_file up to open(validated_path, 'w'): the file exists and is empty
write_file_open(fsx, roots, file_path) ==
  LET opened(v, w) ==
        IF ~w.ok THEN Finished(w.fs, Caught(w.fs, w.err).result)
        ELSE [fs |-> w.fs, done |-> FALSE,
              locals |-> [handle |-> Resolve(w.fs, v.path, TRUE)]]
      made(v, m) ==
        IF ~m.ok THEN Finished(m.fs, Caught(m.fs, m.err).result)
        ELSE opened(v, openWrite(m.fs, v.path, "w", <<>>))
      validated(v) ==
        IF ~v.ok THEN Finished(fsx, Caught(fsx, v.err).result)
        ELSE made(v, makedirs(fsx, dirname(v.path)))
  IN validated(validate_path(roots, file_path))

\* f.write(content) and the close: the text goes to the open file from
\* offset 0, what the file holds beyond it stays
write_file_write(fsx, file_path, content, locals) ==
  LET over(old, new) == new \o SubSeq(old, Len(new) + 1, Len(old))
      res == [success |-> TRUE,
              message |-> <<"File written successfully: ", file_path>>,
              file_path |-> file_path, size |-> Len(content)]
  IN IF locals.handle = Detached \/ Kind(fsx, locals.handle) # "file"
       THEN Finished(fsx, res)
       ELSE Finished([fsx EXCEPT ![locals.handle] =
                        File(over(fsx[locals.handle].content, encode_text(content)))],
                     res)

\* copy_file up to and including `if os.path.exists(validated_dest)`
copy_file_check(fsx, roots, source_path, destination_path) ==
  LET validated(vs, vd) ==
        IF ~vs.ok THEN Finished(fsx, Caught(fsx, vs.err).result)
        ELSE IF ~vd.ok THEN Finished(fsx, Caught(fsx, vd.err).result)
        ELSE IF ~exists(fsx, vs.path)
          THEN Finished(fsx, Refused(fsx, "Source file not found: ", source_path).result)
        ELSE IF ~isfile(fsx, vs.path)
          THEN Finished(fsx, Refused(fsx, "Source is not a file: ", source_path).result)
        ELSE IF exists(fsx, vd.path)
          THEN Finished(fsx, Refused(fsx, "Destination already exists: ",
                                     destination_path).result)
        ELSE [fs |-> fsx, done |-> FALSE, locals |-> [src |-> vs.path, dst |-> vd.path]]
  IN validated(validate_path(roots, source_path), validate_path(roots, destination_path))

\* the rest of copy_file: os.makedirs, shutil.copy2, the result
copy_file_act(fsx, source_path, destination_path, locals) ==
  LET copied(r) ==
        IF ~r.ok THEN Finished(r.fs, Caught(r.fs, r.err).result)
        ELSE Finished(r.fs,
                      [success |-> TRUE,
                       message |-> <<"File copied successfully: ", source_path,
                                     " -> ", destination_path>>,
                       source_path |-> source_path,
                       destination_path |-> destination_path])
      made(m) ==
        IF ~m.ok THEN Finished(m.fs, Caught(m.fs, m.err).result)
        ELSE copied(copy2(m.fs, locals.src, locals.dst))
  IN made(makedirs(fsx, dirname(locals.dst)))

\* move_file up to and including `if os.path.exists(validated_dest)`
move_file_check(fsx, roots, source_path, destination_path) ==
  LET validated(vs, vd) ==
        IF ~vs.ok THEN Finished(fsx, Caught(fsx, vs.err).result)
        ELSE IF ~vd.ok THEN Finished(fsx, Caught(fsx, vd.err).result)
        ELSE IF ~exists(fsx, vs.path)
          THEN Finished(fsx, Refused(fsx, "Source file not found: ", source_path).result)
        ELSE IF exists(fsx, vd.path)
          THEN Finished(fsx, Refused(fsx, "Destination already exists: ",
                                     destination_path).result)
        ELSE [fs |-> fsx, done |-> FALSE, locals |-> [src |-> vs.path, dst |-> vd.path]]
  IN validated(validate_path(roots, source_path), validate_path(roots, destination_path))

\* the rest of move_file: os.makedirs, shutil.move, the result
move_file_act(fsx, source_path, destination_path, locals) ==
  LET moved(r) ==
        IF ~r.ok THEN Finished(r.fs, Caught(r.fs, r.err).result)
        ELSE Finished(r.fs,
                      [success |-> TRUE,
                       message |-> <<"File moved successfully: ", source_path,
                                     " -> ", destination_path>>,
                       source_path |-> source_path,
                       destination_path |-> destination_path])
      made(m) ==
        IF ~m.ok THEN Finished(m.fs, Caught(m.fs, m.err).result)
        ELSE moved(move(m.fs, locals.src, locals.dst))
  IN made(makedirs(fsx, dirname(locals.dst)))

\* an open handle of another caller after os.rename(src, dst): the handle
\* follows the file renamed, and loses the name of a file replaced
renamed_under(c, src, dst) ==
  IF c.pc # "acting" \/ "handle" \notin DOMAIN c.locals THEN c
  ELSE IF c.locals.handle = src THEN [c EXCEPT !.locals.handle = dst]
  ELSE IF c.locals.handle = dst THEN [c EXCEPT !.locals.handle = Detached]
  ELSE c

\* the calls that run concurrently
ConcurrentCalls ==
  {[fn |-> "write_file", args |-> [file_path |-> PWF, content |-> <<"h", "i">>]],
   [fn |-> "write_file", args |-> [file_path |-> PWF, content |-> <<"x">>]],
   [fn |-> "write_file", args |-> [file_path |-> PRootDF, content |-> <<"x">>]],
   [fn |-> "copy_file", args |-> [source_path |-> PRootF, destination_path |-> PWF]],
   [fn |-> "copy_file", args |-> [source_path |-> POF, destination_path |-> PWF]],
   [fn |-> "move_file", args |-> [source_path |-> PRootF, destination_path |-> PWF]],
   [fn |-> "move_file", args |-> [source_path |-> PRootF, destination_path |-> PRootDF]],
   [fn |-> "delete_directory", args |-> [directory_path |-> PRootD, force |-> FALSE]],
   [fn |-> "create_directory", args |-> [directory_path |-> PRootDF]]}

Started(c) == [fn |-> c.fn, args |-> c.args, pc |-> "start", locals |-> <<>>]

InitConcurrent ==
  /\ fs = init_handler(InitialDisk, RootsArg).fs
  /\ allowed_directories = ConstructedRoots
  /\ \E a \in ConcurrentCalls, b \in ConcurrentCalls :
       call = [fn |-> "concurrent", calls |-> <<Started(a), Started(b)>>]
  /\ result = <<NoResult, NoResult>>
  /\ ops = 0

\* caller p takes the first step of its call: s is what the step gave
FirstStep(p, s) ==
  /\ fs' = s.fs
  /\ IF s.done
       THEN /\ call' = [call EXCEPT !.calls[p].pc = "done"]
            /\ result' = [result EXCEPT ![p] = s.result]
       ELSE /\ call' = [call EXCEPT !.calls[p].pc = "acting", !.calls[p].locals = s.locals]
            /\ UNCHANGED result
  /\ UNCHANGED <<allowed_directories, ops>>

\* caller p takes the last step of its call
LastStep(p, s) ==
  /\ fs' = s.fs
  /\ call' = [call EXCEPT !.calls[p].pc = "done"]
  /\ result' = [result EXCEPT ![p] = s.result]
  /\ UNCHANGED <<allowed_directories, ops>>

WriteOpen ==
  \E p \in Procs :
    /\ call.calls[p].fn = "write_file" /\ call.calls[p].pc = "start"
    /\ FirstStep(p, write_file_open(fs, allowed_directories, call.calls[p].args.file_path))

WriteWrite ==
  \E p \in Procs :
    /\ call.calls[p].fn = "write_file" /\ call.calls[p].pc = "acting"
    /\ LastStep(p, write_file_write(fs, call.calls[p].args.file_path,
                                    call.calls[p].args.content, call.calls[p].locals))

CopyCheck ==
  \E p \in Procs :
    /\ call.calls[p].fn = "copy_file" /\ call.calls[p].pc = "start"
    /\ FirstStep(p, copy_file_check(fs, allowed_directories,
                                    call.calls[p].args.source_path,
                                    call.calls[p].args.destination_path))

CopyAct ==
  \E p \in Procs :
    /\ call.calls[p].fn = "copy_file" /\ call.calls[p].pc = "acting"
    /\ LastStep(p, copy_file_act(fs, call.calls[p].args.source_path,
                                 call.calls[p].args.destination_path,
                                 call.calls[p].locals))

MoveCheck ==
  \E p \in Procs :
    /\ call.calls[p].fn = "move_file" /\ call.calls[p].pc = "start"
    /\ FirstStep(p, move_file_check(fs, allowed_directories,
                                    call.calls[p].args.source_path,
                                    call.calls[p].args.destination_path))

MoveAct ==
  \E p \in Procs :
    /\ call.calls[p].fn = "move_file" /\ call.calls[p].pc = "acting"
    /\ LET stepped(s, src, dst) ==
             /\ fs' = s.fs
             /\ call' = [call EXCEPT !.calls =
                           [q \in Procs |->
                              IF q = p THEN [call.calls[p] EXCEPT !.pc = "done"]
                              ELSE IF s.result.success
                                THEN renamed_under(call.calls[q], src, dst)
                              ELSE call.calls[q]]]
             /\ result' = [result EXCEPT ![p] = s.result]
             /\ UNCHANGED <<allowed_directories, ops>>
       IN stepped(move_file_act(fs, call.calls[p].args.source_path,
                                call.calls[p].args.destination_path,
                                call.calls[p].locals),
                  call.calls[p].locals.src, call.calls[p].locals.dst)

\* delete_directory up to and including the test of os.listdir
delete_directory_check(fsx, roots, directory_path, force) ==
  LET validated(v) ==
        IF ~v.ok THEN Finished(fsx, Caught(fsx, v.err).result)
        ELSE IF ~exists(fsx, v.path)
          THEN Finished(fsx, Refused(fsx, "Directory not found: ", directory_path).result)
        ELSE IF ~isdir(fsx, v.path)
          THEN Finished(fsx, Refused(fsx, "Path is not a directory: ",
                                     directory_path).result)
        ELSE IF ~force /\ listdirSeq(fsx, v.path) # <<>>
          THEN Finished(fsx, [success |-> FALSE,
                              error |-> <<"Directory not empty: ", directory_path,
                                          ". Use force=True to delete.">>])
        ELSE [fs |-> fsx, done |-> FALSE, locals |-> [path |-> v.path]]
  IN validated(validate_path(roots, directory_path))

\* the rest of delete_directory: shutil.rmtree (which raises when the
\* directory is gone) and the result
delete_directory_act(fsx, directory_path, locals) ==
  LET removed(r) ==
        IF ~r.ok THEN Finished(r.fs, Caught(r.fs, r.err).result)
        ELSE Finished(r.fs,
                      [success |-> TRUE,
                       message |-> <<"Directory deleted successfully: ", directory_path>>,
                       directory_path |-> directory_path])
  IN IF ~exists(fsx, locals.path)
       THEN Finished(fsx, Caught(fsx, OSErrorStr("[Errno 2] No such file or directory: '",
                                                 locals.path)).result)
       ELSE removed(rmtree(fsx, locals.path))

\* an open handle of another caller after the tree at path has been removed
removed_under(c, path) ==
  IF c.pc # "acting" \/ "handle" \notin DOMAIN c.locals THEN c
  ELSE IF Within(c.locals.handle, path) THEN [c EXCEPT !.locals.handle = Detached]
  ELSE c

DeleteCheck ==
  \E p \in Procs :
    /\ call.calls[p].fn = "delete_directory" /\ call.calls[p].pc = "start"
    /\ FirstStep(p, delete_directory_check(fs, allowed_directories,
                                           call.calls[p].args.directory_path,
                                           call.calls[p].args.force))

DeleteAct ==
  \E p \in Procs :
    /\ call.calls[p].fn = "delete_directory" /\ call.calls[p].pc = "acting"
    /\ LET stepped(s, path) ==
             /\ fs' = s.fs
             /\ call' = [call EXCEPT !.calls =
                           [q \in Procs |->
                              IF q = p THEN [call.calls[p] EXCEPT !.pc = "done"]
                              ELSE IF s.result.success
                                THEN removed_under(call.calls[q], path)
                              ELSE call.calls[q]]]
             /\ result' = [result EXCEPT ![p] = s.result]
             /\ UNCHANGED <<allowed_directories, ops>>
       IN stepped(delete_directory_act(fs, call.calls[p].args.directory_path,
                                       call.calls[p].locals),
                  call.calls[p].locals.path)

\* create_directory is one step: validation and os.makedirs
CreateDir ==
  \E p \in Procs :
    /\ call.calls[p].fn = "create_directory" /\ call.calls[p].pc = "start"
    /\ LET created(r) == LastStep(p, Finished(r.fs, r.result))
       IN created(create_directory(fs, allowed_directories,
                                   call.calls[p].args.directory_path))

NextConcurrent ==
  \/ WriteOpen
  \/ WriteWrite
  \/ CopyCheck
  \/ CopyAct
  \/ MoveCheck
  \/ MoveAct
  \/ DeleteCheck
  \/ DeleteAct
  \/ CreateDir

SpecConcurrent == InitConcurrent /\ [][NextConcurrent]_vars

\* C16: no copy_file or move_file returns success=true having replaced
\* content that another concurrent call had placed at its destination: when
\* the copy or move succeeds, the destination did not exist right before it.
C16_AtomicCheckThenAct ==
  [][\A p \in Procs :
       (/\ call.calls[p].fn \in {"copy_file", "move_file"}
        /\ call.calls[p].pc = "acting"
        /\ call'.calls[p].pc = "done"
        /\ result'[p].success)
         => ~exists(fs, call.calls[p].locals.dst)]_vars

\* C17: when two concurrent write_file calls on one path with contents c1
\* and c2 have both finished, both have returned success=true and the file
\* holds exactly c1 or exactly c2.
C17_LastWriterWins ==
  (/\ \A p \in Procs : call.calls[p].fn = "write_file" /\ call.calls[p].pc = "done"
   /\ call.calls[1].args.file_path = call.calls[2].args.file_path)
    => /\ \A p \in Procs : result[p].success
       /\ \E p \in Procs :
            /\ isfile(fs, abspath(call.calls[p].args.file_path))
            /\ readContent(fs, abspath(call.calls[p].args.file_path))
                 = encode_text(call.calls[p].args.content)

(***************************************************************************)
(* Frame of the read-only operations                                       *)
(***************************************************************************)

ReadOnlyOps ==
  {"read_file", "list_directory", "search_files", "get_file_info",
   "get_allowed_directories"}

\* C18: read_file, list_directory, search_files, get_file_info and
\* get_allowed_directories leave the filesystem and the list of allowed
\* roots as they were, whether they succeed or fail.
C18_ReadOnlyFrame ==
  [][call'.fn \in ReadOnlyOps
       => fs' = fs /\ allowed_directories' = allowed_directories]_vars

C18_Witness ==
  /\ call.fn = "list_directory"
  /\ call.args.directory_path = PRootDF
  /\ result = [success |-> FALSE, error |-> <<"Directory not found: ", PRootDF>>]
  /\ ~exists(fs, PRootDF)

(***************************************************************************)
(* list_directory on a directory with a hidden entry                       *)
(***************************************************************************)

HiddenDisk == [InitialDisk EXCEPT ![PRootH] = File(<<"s">>)]

InitListing == Constructed(init_handler(HiddenDisk, RootsArg))

NextListing ==
  \/ ListDirectory
  \/ WriteFile
  \/ CreateDirectory
  \/ DeleteFile
  \/ DeleteDirectory
  \/ Forget

SpecListing == InitListing /\ [][NextListing]_vars

\* the names list_directory is to report for the directory at node q
Reported(fsx, q, include_hidden) ==
  {basename(n) : n \in {c \in Children(fsx, q) : include_hidden \/ basename(c)[1] # "."}}

\* the items are one per name of names, typed by what the name is in q
ItemsAre(fsx, items, names, q) ==
  /\ {items[k].name : k \in 1..Len(items)} = names
  /\ Len(items) = Cardinality(names)
  /\ \A k \in 1..Len(items) :
       items[k].type = IF isdir(fsx, join(q, items[k].name)) THEN "directory" ELSE "file"

\* C19: list_directory on an existing allowed directory returns success=true
\* with exactly one item per direct child, typed 'directory' or 'file', and
\* count the number of items; names that begin with '.' are left out unless
\* include_hidden is true; on a missing path or a non-directory it returns
\* success=false.
C19_Listing ==
  LET listing(v) ==
        IF v.ok /\ isdir(fs, v.path)
          THEN /\ result.success
               /\ result.count = Len(result.items)
               /\ ItemsAre(fs, result.items,
                           Reported(fs, Resolve(fs, v.path, TRUE), call.args.include_hidden),
                           Resolve(fs, v.path, TRUE))
          ELSE ~result.success
  IN call.fn = "list_directory"
       => listing(validate_path(allowed_directories, call.args.directory_path))

C19_Witness ==
  /\ call.fn = "list_directory"
  /\ call.args = [directory_path |-> PRoot, include_hidden |-> FALSE]
  /\ isfile(fs, PRootH)
  /\ result.success
  /\ result.count > 0
  /\ \A k \in 1..Len(result.items) : result.items[k].name # <<".", "h">>

(***************************************************************************)
(* The path text of error messages                                         *)
(***************************************************************************)

\* the paths an error string names: the pieces between the fixed parts of the
\* message
PathTexts(error) == {error[i] : i \in {j \in 1..Len(error) : j % 2 = 0}}

\* C20: the error string of a failed operation names a path only by the
\* string the caller supplied, never by the canonicalized path.
C20_OriginalPathInErrors ==
  (call.fn \in OnePathOps \cup TwoPathOps /\ ~result.success)
    => PathTexts(result.error) \subseteq Range(PathArgs(call))

(***************************************************************************)
(* The sizes write_file and read_file report                               *)
(***************************************************************************)

\* C21: the size write_file reports is the number of bytes it wrote to the
\* file, and the size read_file reports is the byte size of the file.
C21_SizeInBytes ==
  (call.fn \in {"write_file", "read_file"} /\ result.success)
    => result.size = ByteLen(readContent(fs, abspath(call.args.file_path)))

(***************************************************************************)
(* Construction                                                            *)
(***************************************************************************)

\* the arguments FilesystemHandler(...) is constructed with: none (the
\* default list), relative and absolute roots, roots with missing ancestors,
\* and a root whose name a regular file has
ConstructorArgs ==
  {<<>>,
   [allowed_directories |-> <<<<"b", "b">>, PW>>],
   [allowed_directories |-> <<PO>>],
   [allowed_directories |-> <<PX, PSibF>>],
   [allowed_directories |-> <<PW, PRootF>>]}

\* FilesystemHandler(**args): the object replaces the handler in use when the
\* constructor returns; when it raises there is no new object
NewHandler ==
  \E args \in ConstructorArgs :
    LET constructed(h) ==
          /\ fs' = h.fs
          /\ allowed_directories' = IF h.ok THEN h.roots ELSE allowed_directories
          /\ result' = IF h.ok THEN [constructed |-> TRUE]
                       ELSE [escaped |-> "OSError", error |-> h.err]
    IN /\ ops < MaxOps
       /\ constructed(init_handler(fs, Get(args, "allowed_directories", RootsArg)))
       /\ call' = [fn |-> "FilesystemHandler", args |-> args]
       /\ ops' = ops + 1

\* before the first construction there is no handler: no root is allowed
InitConstruct ==
  /\ fs \in {InitialDisk, BlockedDisk}
  /\ allowed_directories = <<>>
  /\ call = NoCall
  /\ result = NoResult
  /\ ops = 0

NextConstruct ==
  \/ NewHandler
  \/ WriteFile
  \/ DeleteDirectory
  \/ Forget

SpecConstruct == InitConstruct /\ [][NextConstruct]_vars

\* the step is a construction that returned
ConstructionReturned ==
  call'.fn = "FilesystemHandler" /\ "constructed" \in DOMAIN result'

\* the list the constructor was given in the step
Supplied == Get(call'.args, "allowed_directories", RootsArg)

\* the step repeats the construction that has just returned
ConstructedAgain ==
  /\ call.fn = "FilesystemHandler"
  /\ "constructed" \in DOMAIN result
  /\ call'.fn = "FilesystemHandler"
  /\ call'.args = call.args

\* C22: a construction stores the supplied roots (the default list when
\* none is given), in order, as absolute paths and leaves every root a
\* directory on disk with nothing that was present changed; constructing
\* again with the same list succeeds and changes nothing.
C22_Construction ==
  [][/\ ConstructionReturned
        => /\ allowed_directories' = [i \in 1..Len(Supplied) |-> abspath(Supplied[i])]
           /\ \A i \in 1..Len(Supplied) : isdir(fs', abspath(Supplied[i]))
           /\ \A n \in Nodes : fs[n] # Absent => fs'[n] = fs[n]
     /\ ConstructedAgain => ConstructionReturned /\ fs' = fs]_vars

C22_Witness ==
  /\ call.fn = "FilesystemHandler"
  /\ call.args = [allowed_directories |-> <<PX, PSibF>>]
  /\ "constructed" \in DOMAIN result
  /\ allowed_directories = <<PX, PSibF>>
  /\ isdir(fs, PSib) /\ isdir(fs, PSibF)
  /\ isfile(fs, PRootF)

(***************************************************************************)
(* delete_directory among concurrent callers                               *)
(***************************************************************************)

\* C23: no delete_directory with force=false returns success=true having
\* deleted a file or subdirectory: when the removal succeeds, the directory
\* held no entry right before it.
C23_UnforcedDeleteDestroysNothing ==
  [][\A p \in Procs :
       (/\ call.calls[p].fn = "delete_directory"
        /\ ~call.calls[p].args.force
        /\ call.calls[p].pc = "acting"
        /\ call'.calls[p].pc = "done"
        /\ result'[p].success)
         => Children(fs, Resolve(fs, call.calls[p].locals.path, TRUE)) = {}]_vars

(***************************************************************************)
(* move_file and copy_file: what a successful call leaves                  *)
(***************************************************************************)

\* what the name p holds: the entry itself (a symlink is not followed) and
\* every entry below it, by the path relative to p
Held(fsx, p) ==
  LET below(q) ==
        [rel \in {SubSeq(n, Len(q) + 1, Len(n)) :
                    n \in {m \in Nodes : Within(m, q) /\ fsx[m].kind # "none"}} |->
           fsx[q \o rel]]
  IN below(Resolve(fsx, p, FALSE))

\* the step is a move_file or copy_file call with both paths allowed
TwoPathCall(fn) ==
  /\ call'.fn = fn
  /\ is_path_allowed(allowed_directories, call'.args.source_path)
  /\ is_path_allowed(allowed_directories, call'.args.destination_path)

\* the step moved what s held to d
Moved(s, d) ==
  /\ result'.success
  /\ ~exists(fs', s)
  /\ Held(fs', d) = Held(fs, s)
  /\ isdir(fs', dirname(d))

SourceNotFound(s) == [success |-> FALSE, error |-> <<"Source file not found: ", s>>]

IntoItself(s, d) == isdir(fs, s) /\ ~islink(fs, s) /\ Within(d, s)

\* an ancestor of d is there and is no directory: the parent cannot be made
ParentBlocked(d) ==
  \E n \in Nodes :
    /\ Within(d, n) /\ n # d
    /\ Kind(fs, Resolve(fs, n, FALSE)) # "none"
    /\ ~isdir(fs, n)

\* the step failed and moved nothing
NotMoved(s, d) == ~result'.success /\ exists(fs', s) /\ ~exists(fs', d)

SourceNotFile(s) == [success |-> FALSE, error |-> <<"Source is not a file: ", s>>]

\* the step copied the file s to d
Copied(s, d) ==
  /\ result'.success
  /\ isfile(fs', d)
  /\ readContent(fs', d) = readContent(fs, s)
  /\ \A n \in Nodes : fs[n].kind # "none" => fs'[n] = fs[n]

\* what copy_file answers when s is no regular file: nothing is created
NotCopied(s) ==
  /\ ~result'.success
  /\ isdir(fs, abspath(s)) => result' = SourceNotFile(s)
  /\ fs' = fs

\* C25 (as stated): copy_file(s, d) with s a regular file and d not existing,
\* both allowed, returns success=true, d's content equals s's and s is
\* unchanged; with s a directory or missing it returns success=false and
\* creates nothing.
C25_CopyAlwaysSucceeds ==
  [][TwoPathCall("copy_file")
       => IF isfile(fs, abspath(call'.args.source_path))
            THEN ~exists(fs, abspath(call'.args.destination_path))
                   => Copied(abspath(call'.args.source_path),
                             abspath(call'.args.destination_path))
            ELSE NotCopied(call'.args.source_path)]_vars

\* C25 (amended): as stated, except when an ancestor of d is there and is
\* not a directory: then the call returns success=false and creates nothing.
C25_Copy ==
  [][TwoPathCall("copy_file")
       => IF isfile(fs, abspath(call'.args.source_path))
            THEN ~exists(fs, abspath(call'.args.destination_path))
                   => IF ParentBlocked(abspath(call'.args.destination_path))
                        THEN ~result'.success /\ fs' = fs
                        ELSE Copied(abspath(call'.args.source_path),
                                    abspath(call'.args.destination_path))
            ELSE NotCopied(call'.args.source_path)]_vars

C25_Witness ==
  /\ call.fn = "copy_file"
  /\ call.args = [source_path |-> PRootF, destination_path |-> PSibF]
  /\ result.success
  /\ fs[PRootF] = File(<<"h", "i">>)
  /\ fs[PSibF] = File(<<"h", "i">>)

(***************************************************************************)
(* append_to_file                                                          *)
(***************************************************************************)

\* what read_file returns for p on the disk fsx, nothing when p is not there
ReadOf(fsx, p) ==
  IF exists(fsx, abspath(p)) THEN read_file(fsx, allowed_directories, p).result.content
  ELSE <<>>

\* C26: after a successful append_to_file(p, b), read_file(p) returns what
\* it returned before (nothing when p did not exist) followed by b.
C26_AppendKeepsContent ==
  [][(call'.fn = "append_to_file" /\ result'.success)
       => /\ read_file(fs', allowed_directories, call'.args.file_path).result.success
          /\ ReadOf(fs', call'.args.file_path)
               = ReadOf(fs, call'.args.file_path) \o call'.args.content]_vars

(***************************************************************************)
(* Failures leave the disk alone                                           *)
(***************************************************************************)

\* C27: an operation that returns success=false leaves the filesystem
\* exactly as it was before the call.
C27_UnchangedOnError ==
  [][(call'.fn \in OperationTable /\ ~result'.success) => fs' = fs]_vars

(***************************************************************************)
(* What a search reports                                                   *)
(***************************************************************************)

\* glob's rule for an entry name and a pattern: the name matches, and a
\* name with a leading dot only matches a pattern with a leading dot
NameMatches(name, pat) == (ishidden(pat) \/ ~ishidden(name)) /\ fnmatch(name, pat)

\* the entry n lies below root and the walk from root down to n's directory
\* passes no hidden directory
ReachedFrom(n, root) ==
  /\ n # root
  /\ Within(n, root)
  /\ fs[n].kind # "none"
  /\ \A q \in Nodes : (q # root /\ q # n /\ Within(q, root) /\ Within(n, q))
                        => ~ishidden(basename(q))

\* the paths a search has reported
MatchPaths == {result.matches[k].path : k \in 1..Len(result.matches)}

\* the search of root for pat has reported exactly what the contract says
SearchReports(root, pat, recursive) ==
  /\ result.success
  /\ result.count = Len(result.matches)
  /\ \A m \in MatchPaths :
       /\ Kind(fs, Resolve(fs, m, FALSE)) # "none"
       /\ abspath(m) # root
       /\ Within(abspath(m), root)
       /\ NameMatches(basename(m), pat)
       /\ ~recursive => dirname(abspath(m)) = root
  /\ \A n \in Nodes :
       (/\ ReachedFrom(n, root)
        /\ NameMatches(basename(n), pat)
        /\ recursive \/ dirname(n) = root) => n \in MatchPaths

\* C28: search_files on an existing allowed directory succeeds, count is the
\* number of matches, every match is an existing entry below the search root
\* whose name matches the pattern, a non-recursive search reports the direct
\* children only and all of them that match, a recursive one the matching
\* entries of every depth; a search root that is missing or not a directory
\* gives success=false.
C28_Search ==
  call.fn = "search_files"
    => IF isdir(fs, abspath(call.args.search_path))
         THEN UnderSomeRoot(abspath(call.args.search_path))
                => SearchReports(abspath(call.args.search_path),
                                 call.args.pattern, call.args.recursive)
       ELSE ~result.success

(***************************************************************************)
(* The code analysis functions of V5                                       *)
(***************************************************************************)

\* the functions and argument maps callers supply to V5
AnalysisCalls == CodeAnalysisFunctions \cup {"read_file"}

AnalysisArgs ==
  {<<>>, [path |-> PRootF], [path |-> CRel], [path |-> PRootD], [path |-> PRootDF],
   [path |-> POF], [path |-> PRootLF], [path |-> PRootF, start_line |-> 1]}

\* the files a V5 call has read: the analyzer's, or the one read_file returned
FilesRead(fsx, name, args, r) ==
  IF name \in CodeAnalysisFunctions THEN r.opened
  ELSE IF r.result.success THEN {Resolve(fsx, abspath(args["path"]), TRUE)}
  ELSE {}

\* V5's execute_function called with an analysis function or read_file
ExecuteCodeAnalysis ==
  \E name \in AnalysisCalls, args \in AnalysisArgs :
    LET returned(r) ==
          /\ call = NoCall
          /\ ops < MaxOps
          /\ fs' = r.fs
          /\ allowed_directories' = r.roots
          /\ result' = r.result
          /\ call' = [fn |-> "v5.execute_function", function_name |-> name,
                      arguments |-> args, opened |-> FilesRead(fs, name, args, r)]
          /\ ops' = ops + 1
    IN returned(execute_function_v5(fs, allowed_directories, name, args))

NextAnalysis ==
  \/ ExecuteCodeAnalysis
  \/ WriteFile
  \/ Forget

SpecAnalysis == Init /\ [][NextAnalysis]_vars

\* C29: whatever function V5's execute_function runs, a file is read only
\* when the path argument passes the allow-list validation, so no file
\* outside every allowed root is read.
C29_ValidationGatesEveryRead ==
  (call.fn = "v5.execute_function" /\ "opened" \in DOMAIN call)
    => \A q \in call.opened :
         /\ validate_path(allowed_directories, call.arguments["path"]).ok
         /\ UnderSomeRoot(q)

(***************************************************************************)
(* The roots on disk                                                       *)
(***************************************************************************)

\* C30: after construction and any sequence of operations every allowed
\* root exists on disk as a directory.
C30_RootsPersist ==
  \A i \in 1..Len(allowed_directories) :
    Kind(fs, Resolve(fs, allowed_directories[i], FALSE)) = "dir"

====
